---- MODULE Spec2Model ----
(***************************************************************************)
(* Model of boardgame_framework: the coordinate systems of coord.py, the   *)
(* Cell entity and the CellMgr registry of cell.py, and the seam engine    *)
(* CellMgr.load_seams.                                                     *)
(*                                                                         *)
(* Python objects are modelled by identity: a Cell is a number (its place  *)
(* in the heap `cells`), a coordinate system instance is a record that     *)
(* carries a serial number, so two instances created under one id differ.  *)
(* None is modelled by NoCell / NoCoord / NoName.  An operation that       *)
(* raises leaves the heap as it was at the raise and names the exception   *)
(* in the field err.                                                       *)
(***************************************************************************)
EXTENDS Integers, Sequences, FiniteSets, TLC

VARIABLES
    cells,             \* heap of Cell objects: oid -> fields
    new_uid,           \* Cell.new_uid (itertools.count)
    assign_coord_cbs,  \* Cell.assign_coord_cbs (class level)
    creation_cbs,      \* Cell.creation_cbs (class level)
    mgrs,              \* CellMgr instances: id -> the four indices, annealed
    coord_systems,     \* CoordinateSystemMgr.coord_systems: id -> instance
    next_serial,       \* identity of the next coordinate system instance
    last,              \* the last call made: operation, arguments, outcome
    ops,               \* number of calls made so far
    seam               \* the running load_seams call: locals and position

vars == <<cells, new_uid, assign_coord_cbs, creation_cbs, mgrs, coord_systems,
          next_serial, last, ops, seam>>

-----------------------------------------------------------------------------
(* Bounds of the model *)

\* registry calls per behaviour of SpecReg
MaxOps == 4
\* Cell objects constructed per behaviour of SpecReg
MaxCells == 2
\* connections in the list handed to load_seams
MaxConns == 3
\* CellMgr instances alive in one process
MaxMgrs == 2
\* coordinate calls per behaviour of SpecCoord
MaxCoordOps == 3
\* the components of the coordinates SpecCoord constructs lie in
\* -CoordMax .. CoordMax
CoordMax == 1
\* calls on cells per behaviour of SpecCell
MaxCellOps == 4
\* Cell objects constructed per behaviour of SpecCell
MaxTreeCells == 3
\* load_seams calls on one CellMgr per behaviour of SpecSeam
MaxSeams == 2

-----------------------------------------------------------------------------
(* Generic helpers: Python dict as a function *)

Put(f, k, v) == [x \in (DOMAIN f) \cup {k} |-> IF x = k THEN v ELSE f[x]]
Del(f, k) == [x \in (DOMAIN f) \ {k} |-> f[x]]
EmptyDict == [x \in {} |-> 0]
Get(f, k, dflt) == IF k \in DOMAIN f THEN f[k] ELSE dflt

NoCell == 0
NoName == ""
NoSystem == [system_tuple |-> <<>>, system_type |-> "None", serial |-> 0]
NoCoord == [cls |-> "None", x |-> 0, y |-> 0, z |-> 0, system |-> NoSystem]
\* the value of an expression that raised ValueError / AttributeError
ErrCoord(e) == [cls |-> e, x |-> 0, y |-> 0, z |-> 0, system |-> NoSystem]
IsCoord(c) == c.cls \in {"CubedCoord", "HexCoord", "RectCoord"}

-----------------------------------------------------------------------------
(* coord.py: coordinate value types *)

CubedCoord(x, y, z, system) ==
    [cls |-> "CubedCoord", x |-> x, y |-> y, z |-> z, system |-> system]
RectCoord(x, y, system) ==
    [cls |-> "RectCoord", x |-> x, y |-> y, z |-> 0, system |-> system]

\* HexCoord(x, y, z, system): the dataclass constructor followed by
\* __post_init__, which raises when the sum of the components is zero
HexCoord(x, y, z, system) ==
    IF x + y + z = 0 THEN ErrCoord("ValueError")
    ELSE [cls |-> "HexCoord", x |-> x, y |-> y, z |-> z, system |-> system]

\* isinstance(coord, type(self)): HexCoord is a subclass of CubedCoord
IsInstance(coord, self) ==
    \/ coord.cls = self.cls
    \/ (self.cls = "CubedCoord" /\ coord.cls = "HexCoord")

\* the class __add__ and __sub__ build their result with: CubedCoord in
\* CubedCoord and, inherited, in HexCoord; RectCoord in RectCoord
ResultCls(self) == IF self.cls = "RectCoord" THEN "RectCoord" ELSE "CubedCoord"

\* the == of two coordinates, the __eq__ the dataclass decorator writes: the
\* same class and equal (x, y, z, system) tuples, where two systems are equal
\* only when they are one instance (CoordinateSystem defines no __eq__)
CoordEq(a, b) ==
    /\ a.cls = b.cls
    /\ <<a.x, a.y, a.z>> = <<b.x, b.y, b.z>>
    /\ a.system.serial = b.system.serial

\* hash(coord): the hash of the (x, y, z, system) tuple, where
\* CoordinateSystem.__hash__ is the hash of system_tuple
CoordHash(a) == <<a.x, a.y, a.z, a.system.system_tuple>>

\* CubedCoord.__add__ / RectCoord.__add__
CoordAdd(a, b) ==
    IF ~IsCoord(a) \/ ~IsCoord(b) THEN ErrCoord("ValueError")
    ELSE IF ~IsInstance(b, a) THEN ErrCoord("ValueError")
    ELSE IF a.system # b.system THEN ErrCoord("ValueError")
    ELSE [cls |-> ResultCls(a), x |-> a.x + b.x, y |-> a.y + b.y, z |-> a.z + b.z,
          system |-> a.system]

\* CubedCoord.__sub__ / RectCoord.__sub__
CoordSub(a, b) ==
    IF ~IsCoord(a) \/ ~IsCoord(b) THEN ErrCoord("ValueError")
    ELSE IF ~IsInstance(b, a) THEN ErrCoord("ValueError")
    ELSE IF a.system # b.system THEN ErrCoord("ValueError")
    ELSE [cls |-> ResultCls(a), x |-> a.x - b.x, y |-> a.y - b.y, z |-> a.z - b.z,
          system |-> a.system]

\* CubedCoord.__mul__ / RectCoord.__mul__ with an int multiplier
CoordMul(a, multiplier) ==
    [cls |-> ResultCls(a), x |-> a.x * multiplier, y |-> a.y * multiplier,
     z |-> a.z * multiplier, system |-> a.system]

\* CubedCoord.__getitem__
CoordItem(c, idx) == IF idx = 0 THEN c.x ELSE IF idx = 1 THEN c.y ELSE c.z

-----------------------------------------------------------------------------
(* coord.py: coordinate system types and instances *)

HexTypes == {"hex"}
RectTypes == {"xy", "rect", "square", "oddr", "oddq", "evenr", "evenq"}

\* CoordinateSystemMgr.system_type_classes after the decorators have run
SystemTypeClass(system_type) ==
    IF system_type \in HexTypes THEN "HexCoordinateSystem"
    ELSE IF system_type \in RectTypes THEN "RectCoordinateSystem"
    ELSE "None"

\* system.coord(x, y, z): coord_cls is CubedCoord for hex, RectCoord for rect
SysCoord(system, x, y, z) ==
    IF SystemTypeClass(system.system_type) = "HexCoordinateSystem"
    THEN CubedCoord(x, y, z, system)
    ELSE RectCoord(x, y, system)

\* self.dirs, built in __init__ (index 0 of the Python list is element 1)
Dirs(system) ==
    IF SystemTypeClass(system.system_type) = "HexCoordinateSystem"
    THEN << CubedCoord(-1, 1, 0, system), CubedCoord(0, 1, -1, system),
            CubedCoord(1, 0, -1, system), CubedCoord(1, -1, 0, system),
            CubedCoord(0, -1, 1, system), CubedCoord(-1, 0, 1, system) >>
    ELSE << RectCoord(-1, 0, system), RectCoord(0, -1, system),
            RectCoord(1, 0, system), RectCoord(0, 1, system) >>

DirAt(system, idx) == Dirs(system)[idx + 1]

\* the methods the seam engine calls on the seamed system; only
\* HexCoordinateSystem defines them
HasSeamMethods(system) ==
    SystemTypeClass(system.system_type) = "HexCoordinateSystem"

\* HexCoordinateSystem.duplicate_coord
DuplicateCoord(system, coord) ==
    IF ~HasSeamMethods(system) THEN ErrCoord("AttributeError")
    ELSE IF ~IsCoord(coord) THEN ErrCoord("AttributeError")
    ELSE IF coord.system.system_type # system.system_type THEN ErrCoord("ValueError")
    ELSE SysCoord(system, coord.x, coord.y, coord.z)

\* the offset without the wrap of negative counts
GetMappingOffsetUnwrapped(system, selfedge_idx, otheredge_idx) ==
    selfedge_idx - ((otheredge_idx + (Len(Dirs(system)) \div 2)) % Len(Dirs(system)))

\* HexCoordinateSystem.get_mapping_offset
GetMappingOffset(system, selfedge_idx, otheredge_idx) ==
    LET n == Len(Dirs(system))
        cnt == selfedge_idx - ((otheredge_idx + (n \div 2)) % n)
    IN  IF cnt < 0 THEN cnt + n ELSE cnt

\* HexCoordinateSystem.make_rotation_transform(cnt), applied to vec
RotationTransform(system, cnt, vec) ==
    LET neg == IF cnt % 2 = 1 THEN -1 ELSE 1
        rotate == (cnt % Len(Dirs(system))) % 3
    IN  SysCoord(system, neg * CoordItem(vec, (0 + rotate) % 3),
                         neg * CoordItem(vec, (1 + rotate) % 3),
                         neg * CoordItem(vec, (2 + rotate) % 3))

\* the converters registered with register_from_converter, by the class of
\* the target system and the type of the coordinate's system
hex_from_oddr(newsystem, coord) ==
    LET x == coord.x + ((coord.y + (coord.y % 2)) \div 2)
        z == -coord.y
        y == -x - z
    IN  SysCoord(newsystem, x, y, z)

oddr_from_hex(newsystem, coord) ==
    LET x == coord.x + ((coord.z - (coord.z % 2)) \div 2)
        y == -coord.z
    IN  SysCoord(newsystem, x, y, 0)

hex_from_evenr(newsystem, coord) ==
    LET x == coord.x - ((coord.y + (coord.y % 2)) \div 2)
        z == -coord.y
        y == -x + z
    IN  SysCoord(newsystem, x, y, z)

hex_from_oddq(newsystem, coord) ==
    LET x == coord.x
        z == coord.y - ((coord.x - (coord.x % 2)) \div 2)
        y == -x - z
    IN  SysCoord(newsystem, x, y, z)

hex_from_evenq(newsystem, coord) ==
    LET x == coord.x
        z == coord.y - ((coord.x + (coord.x % 2)) \div 2)
        y == -x - z
    IN  SysCoord(newsystem, x, y, z)

square_tofrom_square(newsystem, coord) == SysCoord(newsystem, coord.x, coord.y, 0)

hex_tofrom_hex(newsystem, coord) == SysCoord(newsystem, coord.x, coord.y, coord.z)

\* CoordinateSystem.from_other_system
FromOtherSystem(system, coord) ==
    LET cls == SystemTypeClass(system.system_type)
        t == coord.system.system_type
    IN  IF cls = "HexCoordinateSystem" THEN
            IF t = "oddr" THEN hex_from_oddr(system, coord)
            ELSE IF t = "evenr" THEN hex_from_evenr(system, coord)
            ELSE IF t = "oddq" THEN hex_from_oddq(system, coord)
            ELSE IF t = "evenq" THEN hex_from_evenq(system, coord)
            ELSE IF t = "hex" THEN hex_tofrom_hex(system, coord)
            ELSE ErrCoord("ValueError")
        ELSE
            IF t = "hex" THEN oddr_from_hex(system, coord)
            ELSE IF t = "square" THEN square_tofrom_square(system, coord)
            ELSE ErrCoord("ValueError")

\* the pairs of S in the order of two nested loops, the first component in
\* the outer loop
RECURSIVE SortedPairs(_)
SortedPairs(S) ==
    IF S = {} THEN <<>>
    ELSE LET m == CHOOSE p \in S :
                      \A q \in S : p[1] < q[1] \/ (p[1] = q[1] /\ p[2] <= q[2])
         IN  <<m>> \o SortedPairs(S \ {m})

Reverse(s) == [i \in 1..Len(s) |-> s[Len(s) + 1 - i]]

Max(a, b) == IF a >= b THEN a ELSE b
Min(a, b) == IF a <= b THEN a ELSE b

\* HexCoordinateSystem.coords_in_range(anchor, steps): a list
CoordsInRange(system, anchor, steps) ==
    LET pairs == SortedPairs({p \in ((0 - steps)..steps) \X ((0 - steps)..steps) :
                                 /\ p[2] >= Max(0 - steps, 0 - p[1] - steps)
                                 /\ p[2] <= Min(steps, steps - p[1])})
    IN  [i \in 1..Len(pairs) |->
            CoordAdd(anchor, SysCoord(system, pairs[i][1], pairs[i][2],
                                      0 - pairs[i][1] - pairs[i][2]))]

\* the loop of coords_reachable over idx: visited, and the fringe of the
\* round before
RECURSIVE ReachLoop(_, _, _, _, _)
ReachLoop(system, visited, fringe, idx, distance) ==
    IF idx > distance THEN visited
    ELSE LET neighbors == {CoordAdd(coord, Dirs(system)[i]) :
                              coord \in fringe, i \in DOMAIN Dirs(system)} \ visited
         IN  ReachLoop(system, visited \cup neighbors, neighbors, idx + 1, distance)

\* a search that stops one round early
CoordsReachableOneShort(system, start, distance) ==
    ReachLoop(system, {start}, {start}, 1, distance - 1)

\* HexCoordinateSystem.coords_reachable(start, distance): a set
CoordsReachable(system, start, distance) ==
    ReachLoop(system, {start}, {start}, 1, distance)

\* the two loops of coords_in_ring; j counts the appended coordinates
RECURSIVE RingLoop(_, _, _, _, _)
RingLoop(system, coord, radius, j, results) ==
    IF j >= 6 * radius THEN results
    ELSE RingLoop(system, CoordAdd(coord, Dirs(system)[(j \div radius) + 1]), radius,
                  j + 1, Append(results, coord))

\* HexCoordinateSystem.coords_in_ring(anchor, radius): a list
CoordsInRing(system, anchor, radius) ==
    IF radius = 0 THEN <<anchor>>
    ELSE RingLoop(system, CoordAdd(anchor, CoordMul(Dirs(system)[5], radius)),
                  radius, 0, <<>>)

\* range(n), as gen_coord_set of the rect system uses it
RectRangeInclusive(n) == 0..n
RectRange(n) == 0..(n - 1)

\* system.gen_coord_set(dimensions), after validate_dimensions.  The hex
\* system returns a list; the rect system returns a set, whose iteration
\* order is not fixed by the code: order chooses between the order of
\* insertion and its reverse.
GenCoordSet(system, dimensions, order) ==
    IF SystemTypeClass(system.system_type) = "HexCoordinateSystem"
    THEN IF \/ Len(dimensions) # 3
            \/ \E i \in DOMAIN dimensions : dimensions[i] <= 0
            \/ \E i \in DOMAIN dimensions : dimensions[i] # dimensions[1]
         THEN [err |-> "ValueError", coords |-> <<>>]
         ELSE [err |-> "",
               coords |-> CoordsInRange(system, CubedCoord(0, 0, 0, system),
                                        dimensions[1] \div 2)]
    ELSE IF Len(dimensions) # 2 THEN [err |-> "ValueError", coords |-> <<>>]
         ELSE LET pairs == SortedPairs(RectRange(dimensions[1]) \X RectRange(dimensions[2]))
                  coords == [i \in 1..Len(pairs) |->
                                RectCoord(pairs[i][1], pairs[i][2], system)]
              IN  [err |-> "",
                   coords |-> IF order = "reversed" THEN Reverse(coords) ELSE coords]

-----------------------------------------------------------------------------
(* The heap as one value, so that the methods compose as operators *)

World ==
    [cells |-> cells, new_uid |-> new_uid, assign_coord_cbs |-> assign_coord_cbs,
     creation_cbs |-> creation_cbs, mgrs |-> mgrs, coord_systems |-> coord_systems,
     next_serial |-> next_serial, err |-> ""]

EmptyWorld ==
    [cells |-> <<>>, new_uid |-> 0, assign_coord_cbs |-> <<>>, creation_cbs |-> <<>>,
     mgrs |-> <<>>, coord_systems |-> EmptyDict, next_serial |-> 1, err |-> ""]

Raise(w, e) == [w EXCEPT !.err = e]
Ok(w) == w.err = ""

\* CoordinateSystemMgr.create_coord_system; the instance is stored under
\* system_tuple whether or not one is stored there already
CreateCoordSystem(w, system_type, system_tuple) ==
    IF SystemTypeClass(system_type) = "None" THEN Raise(w, "ValueError")
    ELSE IF system_tuple = <<>> THEN Raise(w, "ValueError")
    ELSE [w EXCEPT !.coord_systems =
                       Put(@, system_tuple, [system_tuple |-> system_tuple,
                                             system_type |-> system_type,
                                             serial |-> w.next_serial]),
                   !.next_serial = @ + 1]

\* CoordinateSystemMgr.get_coord_system (NoSystem stands for the ValueError)
GetCoordSystem(w, system_tuple) == Get(w.coord_systems, system_tuple, NoSystem)

\* CoordinateSystemMgr.delete_coord_system
DeleteCoordSystem(w, system_tuple) ==
    IF system_tuple \notin DOMAIN w.coord_systems THEN Raise(w, "ValueError")
    ELSE [w EXCEPT !.coord_systems = Del(@, system_tuple)]

-----------------------------------------------------------------------------
(* cell.py: CellMgr registration *)

\* CellMgr.__init__: empty indices, and the two callbacks appended to the
\* class-level lists of Cell
NewCellMgr(w) ==
    LET mid == Len(w.mgrs) + 1
    IN  [w EXCEPT !.mgrs = Append(@, [by_coord |-> EmptyDict,
                                      by_coord_tuple |-> EmptyDict,
                                      by_name |-> EmptyDict,
                                      by_uid |-> EmptyDict,
                                      annealed |-> {}]),
                  !.assign_coord_cbs = Append(@, mid),
                  !.creation_cbs = Append(@, mid)]

\* `coord in self._cells_by_coord.items()`: items() holds (key, value)
\* pairs, and the left operand is a coordinate, not a pair
InItems(coord, d) ==
    [kind |-> "coord", a |-> coord, b |-> NoCell]
        \in {[kind |-> "pair", a |-> k, b |-> d[k]] : k \in DOMAIN d}

\* `cell in self._cells_by_uid`: the keys are uids, and the left operand is
\* a Cell object
CellInKeys(c, d) ==
    [kind |-> "Cell", v |-> c] \in {[kind |-> "int", v |-> u] : u \in DOMAIN d}

\* CellMgr.register_coord_to_cell
RegisterCoordToCell(w, mid, c, coord) ==
    IF ~Ok(w) THEN w
    ELSE IF InItems(coord, w.mgrs[mid].by_coord) THEN Raise(w, "RuntimeError")
    ELSE LET sid == coord.system.system_tuple
         IN  [w EXCEPT !.mgrs[mid].by_coord = Put(@, coord, c),
                       !.mgrs[mid].by_coord_tuple = Put(@, sid, Get(@, sid, {}) \cup {c})]

\* CellMgr.register_cell
RegisterCell(w, mid, c) ==
    IF ~Ok(w) THEN w
    ELSE LET cell == w.cells[c]
             w1 == IF cell.name # NoName
                   THEN [w EXCEPT !.mgrs[mid].by_name = Put(@, cell.name, c)]
                   ELSE w
             w2 == IF IsCoord(cell.coord)
                   THEN RegisterCoordToCell(w1, mid, c, cell.coord)
                   ELSE w1
         IN  IF ~Ok(w2) THEN w2
             ELSE [w2 EXCEPT !.mgrs[mid].by_uid = Put(@, cell.uid, c)]

\* the loop `for sysid in cell.coords.keys(): ...remove(cell)` of
\* unregister_cell, in the insertion order of the dict; set.remove and the
\* subscript raise KeyError
RECURSIVE RemoveFromSystems(_, _, _, _)
RemoveFromSystems(w, mid, c, i) ==
    IF i > Len(w.cells[c].coords_keys) THEN w
    ELSE LET sid == w.cells[c].coords_keys[i]
             t == w.mgrs[mid].by_coord_tuple
         IN  IF sid \notin DOMAIN t THEN Raise(w, "KeyError")
             ELSE IF c \notin t[sid] THEN Raise(w, "KeyError")
             ELSE RemoveFromSystems(
                      [w EXCEPT !.mgrs[mid].by_coord_tuple[sid] = @ \ {c}],
                      mid, c, i + 1)

\* CellMgr.unregister_cell
UnregisterCell(w, mid, c) ==
    IF c = NoCell THEN Raise(w, "ValueError")
    ELSE LET cell == w.cells[c]
             m == w.mgrs[mid]
             w1 == [w EXCEPT
                      !.mgrs[mid].by_name =
                          IF cell.name \in DOMAIN m.by_name THEN Del(@, cell.name) ELSE @,
                      !.mgrs[mid].by_coord =
                          IF cell.coord \in DOMAIN m.by_coord THEN Del(@, cell.coord) ELSE @,
                      !.mgrs[mid].by_uid =
                          IF CellInKeys(c, m.by_uid) THEN Del(@, cell.uid) ELSE @]
         IN  RemoveFromSystems(w1, mid, c, 1)

\* CellMgr.by_coord / by_name / by_uid / by_coord_id
by_coord(w, mid, coord) == Get(w.mgrs[mid].by_coord, coord, NoCell)
by_name(w, mid, name) == Get(w.mgrs[mid].by_name, name, NoCell)
by_uid(w, mid, uid) == Get(w.mgrs[mid].by_uid, uid, NoCell)
by_coord_id(w, mid, idtuple) == Get(w.mgrs[mid].by_coord_tuple, idtuple, {})

-----------------------------------------------------------------------------
(* cell.py: Cell *)

NoUid == -1

RECURSIVE RunAssignCoordCbs(_, _, _, _)
RunAssignCoordCbs(w, i, c, coord) ==
    IF i > Len(w.assign_coord_cbs) \/ ~Ok(w) THEN w
    ELSE RunAssignCoordCbs(RegisterCoordToCell(w, w.assign_coord_cbs[i], c, coord),
                           i + 1, c, coord)

RECURSIVE RunCreationCbs(_, _, _)
RunCreationCbs(w, i, c) ==
    IF i > Len(w.creation_cbs) \/ ~Ok(w) THEN w
    ELSE RunCreationCbs(RegisterCell(w, w.creation_cbs[i], c), i + 1, c)

\* Cell.assign_coord
AssignCoord(w, c, coord) ==
    IF ~Ok(w) THEN w
    ELSE LET w1 == RunAssignCoordCbs(w, 1, c, coord)
             sid == coord.system.system_tuple
             had == sid \in DOMAIN w.cells[c].coords
         IN  IF ~Ok(w1) THEN w1
             ELSE [w1 EXCEPT
                     !.cells[c].coords = Put(@, sid, coord),
                     !.cells[c].coords_keys = IF had THEN @ ELSE Append(@, sid),
                     !.cells[c].neighbors =
                         IF sid \in DOMAIN @ THEN @
                         ELSE Put(@, sid, [i \in 1..Len(Dirs(coord.system)) |-> NoCell])]

\* Cell.set_default_coord
SetDefaultCoord(w, c, coord) ==
    IF ~Ok(w) THEN w
    ELSE [w EXCEPT !.cells[c].coord = coord,
                   !.cells[c].coord_system_id = coord.system.system_tuple]

\* Cell.assign_default_coord
AssignDefaultCoord(w, c, coord) == SetDefaultCoord(AssignCoord(w, c, coord), c, coord)

\* Cell.get_coord
GetCoord(w, c, coord_sys_id) == Get(w.cells[c].coords, coord_sys_id, NoCoord)

\* Cell.__init__(uid, name, coord); the new object is the last of the heap
CellInit(w, uid, name, coord) ==
    LET oid == Len(w.cells) + 1
        fresh == [uid |-> IF uid = NoUid THEN w.new_uid ELSE uid,
                  name |-> name, coord |-> NoCoord, coord_system_id |-> <<>>,
                  coords |-> EmptyDict, coords_keys |-> <<>>,
                  neighbors |-> EmptyDict, parent |-> NoCell, children |-> <<>>]
        w0 == [w EXCEPT !.cells = Append(@, fresh),
                        !.new_uid = IF uid = NoUid THEN @ + 1 ELSE @]
        w1 == IF IsCoord(coord) THEN AssignDefaultCoord(w0, oid, coord) ELSE w0
    IN  RunCreationCbs(w1, 1, oid)

\* Cell.set_parent(cell, reflexive): with reflexive the cell is appended to
\* the children of its new parent by add_child, which is not reflexive
SetParent(w, c, cell, reflexive) ==
    IF ~Ok(w) THEN w
    ELSE LET w1 == [w EXCEPT !.cells[c].parent = cell]
         IN  IF ~reflexive THEN w1
             ELSE IF cell = NoCell THEN Raise(w1, "AttributeError")
             ELSE [w1 EXCEPT !.cells[cell].children = Append(@, c)]

\* Cell.add_child(cell, reflexive): with reflexive the parent of the child
\* is set by set_parent, which is not reflexive
AddChild(w, c, cell, reflexive) ==
    IF ~Ok(w) THEN w
    ELSE LET w1 == [w EXCEPT !.cells[c].children = Append(@, cell)]
         IN  IF ~reflexive THEN w1
             ELSE IF cell = NoCell THEN Raise(w1, "AttributeError")
             ELSE [w1 EXCEPT !.cells[cell].parent = c]

\* Cell.add_children(cells, reflexive)
RECURSIVE AddChildren(_, _, _, _)
AddChildren(w, c, children, reflexive) ==
    IF children = <<>> \/ ~Ok(w) THEN w
    ELSE AddChildren(AddChild(w, c, Head(children), reflexive), c, Tail(children),
                     reflexive)

\* a list indexed from its end
ListIndexFromEnd(n, side) ==
    IF side >= n \/ side < 0 - n THEN 0
    ELSE IF side < 0 THEN 0 - side
    ELSE n - side

\* the place in a Python list of n elements that the index side names
\* (0 when the index is out of range); a negative index counts from the end
ListIndex(n, side) ==
    IF side >= n \/ side < 0 - n THEN 0
    ELSE IF side < 0 THEN side + n + 1
    ELSE side + 1

\* Cell.set_neighbor(coord_system_id, side, cell)
SetNeighbor(w, c, coord_system_id, side, cell) ==
    IF ~Ok(w) THEN w
    ELSE IF coord_system_id \notin DOMAIN w.cells[c].neighbors THEN Raise(w, "KeyError")
    ELSE LET i == ListIndex(Len(w.cells[c].neighbors[coord_system_id]), side)
         IN  IF i = 0 THEN Raise(w, "IndexError")
             ELSE [w EXCEPT !.cells[c].neighbors[coord_system_id][i] = cell]

\* CellMgr.by_coord(coord), the call get_neighbor makes on the class: the
\* function is not bound to a manager, coord takes the place of self and
\* the parameter coord is missing
ClassByCoord(coord) == [cell |-> NoCell, err |-> "TypeError"]

\* Cell.get_neighbor(coord_system_id, side): the cell returned and the
\* exception raised
GetNeighbor(w, c, coord_system_id, side) ==
    LET coord == GetCoord(w, c, coord_system_id)
    IN  IF coord = NoCoord THEN [cell |-> NoCell, err |-> "AttributeError"]
        ELSE LET i == ListIndex(Len(Dirs(coord.system)), side)
             IN  IF i = 0 THEN [cell |-> NoCell, err |-> "IndexError"]
                 ELSE LET k == CoordAdd(coord, Dirs(coord.system)[i])
                      IN  IF ~IsCoord(k) THEN [cell |-> NoCell, err |-> k.cls]
                          ELSE ClassByCoord(k)

\* HexCoordinateSystem.get_origin / RectCoordinateSystem.get_origin
GetOrigin(system) ==
    IF SystemTypeClass(system.system_type) = "HexCoordinateSystem"
    THEN CubedCoord(0, 0, 0, system)
    ELSE RectCoord(0, 0, system)

\* CellMgr.create_cell(cell_dict) for a cell_dict without subcells: the Cell
\* is built by the constructor, which runs the class-level callbacks
CreateCell(w, mid, cell_dict) ==
    IF "cell_type" \in DOMAIN cell_dict
    THEN LET sid == <<cell_dict.name, "Local">>
             w1 == CreateCoordSystem(w, cell_dict.cell_type, sid)
         IN  IF ~Ok(w1) THEN w1
             ELSE CellInit(w1, NoUid, cell_dict.name, GetOrigin(GetCoordSystem(w1, sid)))
    ELSE CellInit(w, NoUid, cell_dict.name, NoCoord)

\* CellMgr.create_cell(cell_dict, parent_cell): the new cell is handed to
\* parent_cell.add_child, without reflexive
CreateCellIn(w, mid, cell_dict, parent_cell) ==
    LET w1 == CreateCell(w, mid, cell_dict)
    IN  IF ~Ok(w1) \/ parent_cell = NoCell THEN w1
        ELSE AddChild(w1, parent_cell, Len(w1.cells), FALSE)

\* the loop of create_auto_cells that builds one Cell per pair of
\* coordinates: Cell(coord=coords[1], **auto_cell_dict), then
\* cell.assign_coord(coords[0])
RECURSIVE AutoCellsLoop(_, _, _, _, _)
AutoCellsLoop(w, name, dcoords, coords, i) ==
    IF i > Len(dcoords) \/ ~Ok(w) THEN w
    ELSE LET w1 == CellInit(w, NoUid, name, coords[i])
         IN  AutoCellsLoop(AssignCoord(w1, Len(w1.cells), dcoords[i]),
                           name, dcoords, coords, i + 1)

\* the cells a call left on the heap after those of w, in order
NewCells(w, w1) == [i \in 1..(Len(w1.cells) - Len(w.cells)) |-> Len(w.cells) + i]

\* CellMgr.create_auto_cells up to the xform pipeline: the two systems, the
\* cells, and the children of the parent
AutoGenerate(w, mid, parent_cell, auto_cell_dict, order) ==
    IF parent_cell = NoCell THEN Raise(w, "AttributeError")
    ELSE IF ~({"cell_type", "dimensions"} \subseteq DOMAIN auto_cell_dict)
    THEN Raise(w, "ValueError")
    ELSE LET pname == w.cells[parent_cell].name
             dims_id == <<pname, "auto_dims", "Local">>
             w1 == CreateCoordSystem(w, auto_cell_dict.dimensions.system, dims_id)
             g == GenCoordSet(GetCoordSystem(w1, dims_id),
                              auto_cell_dict.dimensions.dims, order)
             w2 == CreateCoordSystem(w1, auto_cell_dict.cell_type, <<pname, "Local">>)
             coord_system == GetCoordSystem(w2, <<pname, "Local">>)
             coords == [i \in 1..Len(g.coords) |->
                           FromOtherSystem(coord_system, g.coords[i])]
             name == IF "name" \in DOMAIN auto_cell_dict THEN auto_cell_dict.name
                     ELSE NoName
         IN  IF ~Ok(w1) THEN w1
             ELSE IF g.err # "" THEN Raise(w1, g.err)
             ELSE IF ~Ok(w2) THEN w2
             ELSE IF \E i \in DOMAIN coords : ~IsCoord(coords[i])
             THEN Raise(w2, "ValueError")
             ELSE LET w3 == AutoCellsLoop(w2, name, g.coords, coords, 1)
                  IN  AddChildren(w3, parent_cell, NewCells(w, w3), TRUE)

\* the coordinates a mask flags: row yidx, column xidx of data flags
\* system.coord(x=xidx, y=ysize-yidx-1)
Flagged(system, data) ==
    {SysCoord(system, p[2] - 1, Len(data) - p[1], 0) :
        p \in {q \in (DOMAIN data) \X (1..Len(data[1])) : data[q[1]][q[2]] # 0}}

\* the cells of a list that are in the set S, in the order of the list
RECURSIVE SelectCells(_, _)
SelectCells(seq, S) ==
    IF seq = <<>> THEN <<>>
    ELSE (IF Head(seq) \in S THEN <<Head(seq)>> ELSE <<>>) \o SelectCells(Tail(seq), S)

\* cellmgr.unregister_cell for each cell of the list remove
RECURSIVE UnregisterCells(_, _, _)
UnregisterCells(w, mid, remove) ==
    IF remove = <<>> \/ ~Ok(w) THEN w
    ELSE UnregisterCells(UnregisterCell(w, mid, Head(remove)), mid, Tail(remove))

\* _flat_filter(cellmgr, data, cells, system): the heap after it and the
\* list keep it returns
FlatFilter(w, mid, data, auto_cells, system) ==
    LET coords == Flagged(system, data)
        Conv(c) == FromOtherSystem(system, w.cells[c].coord)
        all == {auto_cells[i] : i \in DOMAIN auto_cells}
        keep == {c \in all : ~\E k \in coords : CoordEq(Conv(c), k)}
    IN  IF \E i \in DOMAIN auto_cells : ~IsCoord(Conv(auto_cells[i]))
        THEN [w |-> Raise(w, "ValueError"), cells |-> auto_cells]
        ELSE [w |-> UnregisterCells(w, mid, SelectCells(auto_cells, all \ keep)),
              cells |-> SelectCells(auto_cells, keep)]

\* oddr_flat_filter / evenr_flat_filter / square_flat_filter: the filter's
\* system is created under the name of the xform and deleted after the
\* filter returned
FlatFilterXform(w, mid, system_type, xform_name, data, auto_cells) ==
    LET w1 == CreateCoordSystem(w, system_type, <<xform_name>>)
        r == FlatFilter(w1, mid, data, auto_cells, GetCoordSystem(w1, <<xform_name>>))
    IN  IF ~Ok(r.w) THEN r
        ELSE [w |-> DeleteCoordSystem(r.w, <<xform_name>>), cells |-> r.cells]

\* the inner loop of auto_connect, over the sides of one cell
RECURSIVE AutoConnectSides(_, _, _, _, _, _)
AutoConnectSides(w, mid, c, coord_system_id, dirs, side) ==
    IF side >= Len(dirs) \/ ~Ok(w) THEN w
    ELSE LET coord == GetCoord(w, c, coord_system_id)
             k == CoordAdd(coord, dirs[side + 1])
             conn_cell == by_coord(w, mid, k)
             w1 == IF coord = NoCoord THEN Raise(w, "TypeError")
                   ELSE IF ~IsCoord(k) THEN Raise(w, k.cls)
                   ELSE IF conn_cell = NoCell THEN w
                   ELSE SetNeighbor(w, c, coord_system_id, side, conn_cell)
         IN  AutoConnectSides(w1, mid, c, coord_system_id, dirs, side + 1)

\* the outer loop of auto_connect, over the cells
RECURSIVE AutoConnectLoop(_, _, _, _, _)
AutoConnectLoop(w, mid, auto_cells, coord_system_id, dirs) ==
    IF auto_cells = <<>> \/ ~Ok(w) THEN w
    ELSE AutoConnectLoop(AutoConnectSides(w, mid, Head(auto_cells), coord_system_id,
                                          dirs, 0),
                         mid, Tail(auto_cells), coord_system_id, dirs)

\* auto_connect(cellmgr, data, cells)
AutoConnect(w, mid, auto_cells) ==
    IF auto_cells = <<>> THEN [w |-> Raise(w, "ValueError"), cells |-> auto_cells]
    ELSE IF w.cells[auto_cells[1]].parent = NoCell
    THEN [w |-> Raise(w, "AttributeError"), cells |-> auto_cells]
    ELSE LET coord_system_id == <<w.cells[w.cells[auto_cells[1]].parent].name, "Local">>
             coord_system == GetCoordSystem(w, coord_system_id)
         IN  IF coord_system = NoSystem
             THEN [w |-> Raise(w, "ValueError"), cells |-> auto_cells]
             ELSE [w |-> AutoConnectLoop(w, mid, auto_cells, coord_system_id,
                                         Dirs(coord_system)),
                   cells |-> auto_cells]

\* one round of the xform loop of create_auto_cells: the xform registered
\* under xform.type in CellMgr._cell_xforms, or RuntimeError
ApplyXform(w, mid, xform, auto_cells) ==
    IF xform.type = "oddr_flat_filter"
    THEN FlatFilterXform(w, mid, "oddr", xform.type, xform.data, auto_cells)
    ELSE IF xform.type = "evenr_flat_filter"
    THEN FlatFilterXform(w, mid, "evenr", xform.type, xform.data, auto_cells)
    ELSE IF xform.type = "square_flat_filter"
    THEN FlatFilterXform(w, mid, "square", xform.type, xform.data, auto_cells)
    ELSE IF xform.type = "auto_connect" THEN AutoConnect(w, mid, auto_cells)
    ELSE [w |-> Raise(w, "RuntimeError"), cells |-> auto_cells]

\* CellMgr.unregister_all
UnregisterAll(w, mid) ==
    [w EXCEPT !.mgrs[mid].by_name = EmptyDict,
              !.mgrs[mid].by_coord = EmptyDict,
              !.mgrs[mid].by_uid = EmptyDict,
              !.mgrs[mid].by_coord_tuple = EmptyDict]

-----------------------------------------------------------------------------
(* SpecReg: calls on Cell and on the CellMgr instances, in any order *)

SetWorld(w) ==
    /\ cells' = w.cells
    /\ new_uid' = w.new_uid
    /\ assign_coord_cbs' = w.assign_coord_cbs
    /\ creation_cbs' = w.creation_cbs
    /\ mgrs' = w.mgrs
    /\ coord_systems' = w.coord_systems
    /\ next_serial' = w.next_serial

IdleSeam == [pc |-> "idle"]

NoCall == [op |-> "none", mgr |-> 0, cell |-> NoCell, coord |-> NoCoord,
           err |-> "", pre |-> <<>>]

\* two hex systems and one CellMgr
RegWorld ==
    NewCellMgr(CreateCoordSystem(CreateCoordSystem(EmptyWorld, "hex", <<"A", "Local">>),
                                 "hex", <<"Global">>))

\* the coordinates the calls of SpecReg draw from
RegCoords ==
    LET a == coord_systems[<<"A", "Local">>]
        g == coord_systems[<<"Global">>]
    IN  {SysCoord(a, 0, 0, 0), SysCoord(a, 1, -1, 0), SysCoord(g, 0, 0, 0)}

RegNames == {NoName, "n"}

InitReg ==
    /\ cells = RegWorld.cells
    /\ new_uid = RegWorld.new_uid
    /\ assign_coord_cbs = RegWorld.assign_coord_cbs
    /\ creation_cbs = RegWorld.creation_cbs
    /\ mgrs = RegWorld.mgrs
    /\ coord_systems = RegWorld.coord_systems
    /\ next_serial = RegWorld.next_serial
    /\ last = [NoCall EXCEPT !.pre = RegWorld.mgrs]
    /\ ops = 0
    /\ seam = IdleSeam

\* one call: the heap after it, and what was called and how it ended
Called(op, mid, c, coord, w) ==
    /\ ops < MaxOps
    /\ SetWorld(w)
    /\ last' = [op |-> op, mgr |-> mid, cell |-> c, coord |-> coord,
                err |-> w.err, pre |-> mgrs]
    /\ ops' = ops + 1
    /\ UNCHANGED seam

\* Cell(name=name, coord=coord)
NewCell ==
    /\ Len(cells) < MaxCells
    /\ \E name \in RegNames, coord \in RegCoords \cup {NoCoord} :
           Called("Cell", 0, Len(cells) + 1, coord, CellInit(World, NoUid, name, coord))

\* cell.assign_coord(coord)
DoAssignCoord ==
    \E c \in DOMAIN cells, coord \in RegCoords :
        Called("assign_coord", 0, c, coord, AssignCoord(World, c, coord))

\* cell.assign_default_coord(coord)
DoAssignDefaultCoord ==
    \E c \in DOMAIN cells, coord \in RegCoords :
        Called("assign_default_coord", 0, c, coord, AssignDefaultCoord(World, c, coord))

\* cellmgr.register_cell(cell)
DoRegisterCell ==
    \E mid \in DOMAIN mgrs, c \in DOMAIN cells :
        Called("register_cell", mid, c, cells[c].coord, RegisterCell(World, mid, c))

\* cellmgr.unregister_cell(cell)
DoUnregisterCell ==
    \E mid \in DOMAIN mgrs, c \in DOMAIN cells :
        Called("unregister_cell", mid, c, cells[c].coord, UnregisterCell(World, mid, c))

\* CellMgr()
DoNewCellMgr ==
    /\ Len(mgrs) < MaxMgrs
    /\ Called("CellMgr", Len(mgrs) + 1, NoCell, NoCoord, NewCellMgr(World))

\* the cell_dict arguments of create_cell
CellDicts == {[name |-> "n"], [name |-> "n", cell_type |-> "hex"]}

\* cellmgr.create_cell(cell_dict)
DoCreateCell ==
    /\ Len(cells) < MaxCells
    /\ \E mid \in DOMAIN mgrs, cell_dict \in CellDicts :
           Called("create_cell", mid, Len(cells) + 1, NoCoord,
                  CreateCell(World, mid, cell_dict))

\* cellmgr.unregister_all()
DoUnregisterAll ==
    \E mid \in DOMAIN mgrs :
        Called("unregister_all", mid, NoCell, NoCoord, UnregisterAll(World, mid))

NextReg ==
    \/ DoNewCellMgr
    \/ DoCreateCell
    \/ DoUnregisterAll
    \/ NewCell
    \/ DoAssignCoord
    \/ DoAssignDefaultCoord
    \/ DoRegisterCell
    \/ DoUnregisterCell

SpecReg == InitReg /\ [][NextReg]_vars

-----------------------------------------------------------------------------
(* cell.py: CellMgr.load_seams, one action per step of its loops *)

\* the CellMgr that load_seams is called on
SeamMgr == 1

\* Conn.NAME, Conn.COORD, Conn.EDGE of one endpoint of a connection
Endpoint(name, coord, edge) == [name |-> name, coord |-> coord, edge |-> edge]

LocalId(name) == <<name, "Local">>

\* the generator get_next_conn, resumed: it runs to its next yield, to its
\* return or to its raise.  gen holds its locals at the last yield.
GenStart == [phase |-> "start", idx |-> 0, index |-> 0, stopmarker |-> -1]

GenYield(phase, idx, index, flag) ==
    [kind |-> "yield", flag |-> flag, at |-> index,
     gen |-> [phase |-> phase, idx |-> idx, index |-> index, stopmarker |-> index]]
GenReturn == [kind |-> "return", flag |-> 0, at |-> 0, gen |-> GenStart]
GenRaise == [kind |-> "raise", flag |-> 0, at |-> 0, gen |-> GenStart]

\* the `while True` sweep, from the top of the loop
RECURSIVE GenWhile(_, _, _, _)
GenWhile(index, stopmarker, annealed, connections) ==
    IF index = stopmarker THEN GenReturn
    ELSE LET c1sysin == LocalId(connections[index + 1][1].name) \in annealed
             c2sysin == LocalId(connections[index + 1][2].name) \in annealed
         IN  IF c1sysin # c2sysin
             THEN GenYield("while", 0, index, IF c2sysin THEN 1 ELSE 0)
             ELSE GenWhile((index + 1) % Len(connections), stopmarker, annealed,
                           connections)

\* the `for idx, val in enumerate(connections)` search for the root, from
\* the top of the loop; the test reads connections[index], not [idx]
RECURSIVE GenFor(_, _, _, _, _, _, _)
GenFor(idx, index, stopmarker, initialized, annealed, connections, root_sys_id) ==
    IF idx >= Len(connections)
    THEN IF ~initialized THEN GenRaise
         ELSE GenWhile(index, stopmarker, annealed, connections)
    ELSE IF LocalId(connections[index + 1][1].name) = root_sys_id
         THEN GenYield("for", idx, idx, 0)
         ELSE GenFor(idx + 1, index, stopmarker, initialized, annealed, connections,
                     root_sys_id)

\* next(generator)
GetNextConn(gen, annealed, connections, root_sys_id) ==
    IF gen.phase = "start"
    THEN GenFor(0, 0, -1, FALSE, annealed, connections, root_sys_id)
    ELSE IF gen.phase = "for"
    THEN GenFor(gen.idx + 1, (gen.index + 1) % Len(connections), gen.stopmarker, TRUE,
                annealed, connections, root_sys_id)
    ELSE GenWhile((gen.index + 1) % Len(connections), gen.stopmarker, annealed,
                  connections)

\* raw_coord_sys.coord(*conn[Conn.COORD])
RawCoord(raw_coord_sys, triple) == SysCoord(raw_coord_sys, triple[1], triple[2], triple[3])

Failed(e) == [seam EXCEPT !.pc = "error", !.err = e]

UnchangedHeap ==
    UNCHANGED <<cells, new_uid, assign_coord_cbs, creation_cbs, mgrs, coord_systems,
                next_serial>>

\* load_seams up to the loop: the annealed set and the offsets are reset,
\* the seamed and the raw system are created
SeamStart ==
    /\ seam.pc = "idle"
    /\ seam.seam_type = "auto"
    /\ LET w0 == [World EXCEPT !.mgrs[SeamMgr].annealed = {}]
           w1 == CreateCoordSystem(w0, seam.integrated_system, seam.system_id)
           w2 == IF ~Ok(w1) THEN w1
                 ELSE IF by_coord_id(w1, SeamMgr, seam.system_id) # {}
                 THEN Raise(w1, "RuntimeError: seamed system exists")
                 ELSE CreateCoordSystem(w1, seam.raw_system, seam.system_id \o <<"raw">>)
       IN  /\ SetWorld(w2)
           /\ seam' = [seam EXCEPT
                         !.pc = IF Ok(w2) THEN "next" ELSE "error",
                         !.err = w2.err,
                         !.mapped_edge_offsets = EmptyDict,
                         !.gen = GenStart,
                         !.seamed_coord_sys = GetCoordSystem(w2, seam.system_id),
                         !.raw_coord_sys =
                             GetCoordSystem(w2, seam.system_id \o <<"raw">>)]
    /\ UNCHANGED <<last, ops>>

\* the for statement asks the generator for the next connection
SeamNext ==
    /\ seam.pc = "next"
    /\ LET annealed == mgrs[SeamMgr].annealed
           r == GetNextConn(seam.gen, annealed, seam.connections, LocalId(seam.root_sys_id))
       IN  seam' =
             IF r.kind = "raise"
             THEN Failed("RuntimeError: Couldn't find root coordinate system id")
             ELSE IF r.kind = "return" THEN [seam EXCEPT !.pc = "done"]
             ELSE [seam EXCEPT
                     !.pc = "body", !.gen = r.gen, !.at = r.at, !.flag = r.flag,
                     !.c1sysin =
                         LocalId(seam.connections[r.at + 1][1].name) \in annealed,
                     !.c2sysin =
                         LocalId(seam.connections[r.at + 1][2].name) \in annealed]
    /\ UnchangedHeap
    /\ UNCHANGED <<last, ops>>

\* the loop body up to the choice between the root and a later connection
SeamBody ==
    /\ seam.pc = "body"
    /\ LET w == World
           conn_pair == seam.connections[seam.at + 1]
           c1_sysid == LocalId(conn_pair[1].name)
           c2_sysid == LocalId(conn_pair[2].name)
           cell1_coord_system == GetCoordSystem(w, c1_sysid)
           cell2_coord_system == GetCoordSystem(w, c2_sysid)
           k1 == FromOtherSystem(cell1_coord_system,
                                 RawCoord(seam.raw_coord_sys, conn_pair[1].coord))
           k2 == FromOtherSystem(cell2_coord_system,
                                 RawCoord(seam.raw_coord_sys, conn_pair[2].coord))
           c1 == IF IsCoord(k1) THEN by_coord(w, SeamMgr, k1) ELSE NoCell
           c2 == IF IsCoord(k2) THEN by_coord(w, SeamMgr, k2) ELSE NoCell
           tuples == w.mgrs[SeamMgr].by_coord_tuple
           entered == [seam EXCEPT !.c1_sysid = c1_sysid, !.c2_sysid = c2_sysid,
                                   !.c1 = c1, !.c2 = c2,
                                   !.processed = @ + 1]
           e == IF cell1_coord_system = NoSystem THEN "ValueError"
                ELSE IF cell2_coord_system = NoSystem THEN "ValueError"
                ELSE IF c2_sysid \notin DOMAIN tuples THEN "TypeError"
                ELSE IF ~IsCoord(k1) THEN k1.cls
                ELSE IF ~IsCoord(k2) THEN k2.cls
                ELSE IF c1 = NoCell THEN "RuntimeError: Cannot retrieve cell 1"
                ELSE IF c2 = NoCell THEN "RuntimeError: Cannot retrieve cell 2"
                ELSE IF w.mgrs[SeamMgr].annealed = {}
                THEN IF c1_sysid \notin DOMAIN tuples THEN "TypeError" ELSE ""
                ELSE IF c1_sysid \notin DOMAIN seam.mapped_edge_offsets THEN "KeyError"
                ELSE ""
       IN  seam' =
             IF e # "" THEN [entered EXCEPT !.pc = "error", !.err = e]
             ELSE IF w.mgrs[SeamMgr].annealed = {}
             THEN [entered EXCEPT !.pc = "subsume", !.pending = tuples[c1_sysid]]
             ELSE [entered EXCEPT
                     !.pc = "anchor",
                     !.seamededge_idx =
                         (conn_pair[1].edge + seam.mapped_edge_offsets[c1_sysid])
                             % Len(Dirs(seam.seamed_coord_sys))]
    /\ UnchangedHeap
    /\ UNCHANGED <<last, ops>>

\* one pass of `for cell in cell1_cells`, the set taken in any order
SeamSubsumeCell ==
    /\ seam.pc = "subsume"
    /\ \E cell \in seam.pending :
         LET d == DuplicateCoord(seam.seamed_coord_sys, cells[cell].coord)
             w == IF IsCoord(d) THEN AssignDefaultCoord(World, cell, d)
                  ELSE Raise(World, d.cls)
         IN  /\ SetWorld(w)
             /\ seam' = IF Ok(w) THEN [seam EXCEPT !.pending = @ \ {cell}]
                        ELSE Failed(w.err)
    /\ UNCHANGED <<last, ops>>

\* the root is subsumed: its edge is used as it is, its offset is 0
SeamSubsumeEnd ==
    /\ seam.pc = "subsume"
    /\ seam.pending = {}
    /\ SetWorld([World EXCEPT !.mgrs[SeamMgr].annealed = @ \cup {seam.c1_sysid}])
    /\ seam' = [seam EXCEPT
                  !.pc = "anchor",
                  !.seamededge_idx = seam.connections[seam.at + 1][1].edge,
                  !.mapped_edge_offsets = Put(@, seam.c1_sysid, 0)]
    /\ UNCHANGED <<last, ops>>

\* the offset of the new system, and its anchor cell placed next to c1
SeamAnchor ==
    /\ seam.pc = "anchor"
    /\ LET seamed == seam.seamed_coord_sys
           conn_pair == seam.connections[seam.at + 1]
           offset == GetMappingOffset(seamed, seam.seamededge_idx, conn_pair[2].edge)
           known == GetCoord(World, seam.c1, seamed.system_tuple)
           target == CoordAdd(known, DirAt(seamed, seam.seamededge_idx))
       IN  IF ~HasSeamMethods(seamed)
           THEN seam' = Failed("AttributeError") /\ UnchangedHeap
           ELSE IF known = NoCoord
           THEN /\ seam' = [Failed("RuntimeError: Endpoint 1 has no seamed coordinate")
                              EXCEPT !.mapped_edge_offsets = Put(@, seam.c2_sysid, offset)]
                /\ UnchangedHeap
           ELSE LET w == IF IsCoord(target)
                         THEN AssignDefaultCoord(World, seam.c2, target)
                         ELSE Raise(World, target.cls)
                IN  /\ SetWorld(w)
                    /\ seam' = [seam EXCEPT
                                  !.pc = IF Ok(w) THEN "place" ELSE "error",
                                  !.err = w.err,
                                  !.mapped_edge_offsets = Put(@, seam.c2_sysid, offset),
                                  !.offset = offset,
                                  !.anchor = cells[seam.c2].coord,
                                  !.remapped_anchor = target,
                                  !.pending =
                                      by_coord_id(World, SeamMgr, seam.c2_sysid)]
    /\ UNCHANGED <<last, ops>>

\* the loop body with set_default_coord in place of assign_default_coord:
\* the placed cell gets no coordinate in the seamed system and is not indexed
PlaceCellSetsDefaultOnly(w, seamed, offset, anchor, remapped_anchor, c2, cell) ==
    IF cell = c2 THEN w
    ELSE LET coord_vec == CoordSub(w.cells[cell].coord, anchor)
             new_vec == RotationTransform(seamed, offset, coord_vec)
             new_coord == CoordAdd(remapped_anchor, new_vec)
         IN  IF ~IsCoord(coord_vec) THEN Raise(w, coord_vec.cls)
             ELSE IF ~IsCoord(new_coord) THEN Raise(w, new_coord.cls)
             ELSE IF by_coord(w, SeamMgr, new_coord) # NoCell
             THEN Raise(w, "RuntimeError: Mapped coordinate already exists")
             ELSE SetDefaultCoord(w, cell, new_coord)

\* the loop body without the rotation: the vector is copied into the seamed
\* system as it is
PlaceCellUnrotated(w, seamed, offset, anchor, remapped_anchor, c2, cell) ==
    IF cell = c2 THEN w
    ELSE LET coord_vec == CoordSub(w.cells[cell].coord, anchor)
             new_vec == RotationTransform(seamed, 0, coord_vec)
             new_coord == CoordAdd(remapped_anchor, new_vec)
         IN  IF ~IsCoord(coord_vec) THEN Raise(w, coord_vec.cls)
             ELSE IF ~IsCoord(new_coord) THEN Raise(w, new_coord.cls)
             ELSE IF by_coord(w, SeamMgr, new_coord) # NoCell
             THEN Raise(w, "RuntimeError: Mapped coordinate already exists")
             ELSE AssignDefaultCoord(w, cell, new_coord)

\* the loop body adding the untransformed vector to the cell's own coordinate
\* in place of the remapped anchor: the result lies in the cell's local system
PlaceCellFromOwnCoord(w, seamed, offset, anchor, remapped_anchor, c2, cell) ==
    IF cell = c2 THEN w
    ELSE LET coord_vec == CoordSub(w.cells[cell].coord, anchor)
             new_coord == CoordAdd(w.cells[cell].coord, coord_vec)
         IN  IF ~IsCoord(coord_vec) THEN Raise(w, coord_vec.cls)
             ELSE IF ~IsCoord(new_coord) THEN Raise(w, new_coord.cls)
             ELSE IF by_coord(w, SeamMgr, new_coord) # NoCell
             THEN Raise(w, "RuntimeError: Mapped coordinate already exists")
             ELSE AssignDefaultCoord(w, cell, new_coord)

\* the body of `for cell in cell2_cells` for one cell
PlaceCell(w, seamed, offset, anchor, remapped_anchor, c2, cell) ==
    IF cell = c2 THEN w
    ELSE LET coord_vec == CoordSub(w.cells[cell].coord, anchor)
             new_vec == RotationTransform(seamed, offset, coord_vec)
             new_coord == CoordAdd(remapped_anchor, new_vec)
         IN  IF ~IsCoord(coord_vec) THEN Raise(w, coord_vec.cls)
             ELSE IF ~IsCoord(new_coord) THEN Raise(w, new_coord.cls)
             ELSE IF by_coord(w, SeamMgr, new_coord) # NoCell
             THEN Raise(w, "RuntimeError: Mapped coordinate already exists")
             ELSE AssignDefaultCoord(w, cell, new_coord)

\* one pass of `for cell in cell2_cells`, the set taken in any order
SeamPlaceCell ==
    /\ seam.pc = "place"
    /\ \E cell \in seam.pending :
         LET w == PlaceCell(World, seam.seamed_coord_sys, seam.offset, seam.anchor,
                            seam.remapped_anchor, seam.c2, cell)
         IN  /\ SetWorld(w)
             /\ seam' = IF Ok(w) THEN [seam EXCEPT !.pending = @ \ {cell}]
                        ELSE Failed(w.err)
    /\ UNCHANGED <<last, ops>>

\* self.annealed.add(c2_sysid), and back to the for statement
SeamPlaceEnd ==
    /\ seam.pc = "place"
    /\ seam.pending = {}
    /\ SetWorld([World EXCEPT !.mgrs[SeamMgr].annealed = @ \cup {seam.c2_sysid}])
    /\ seam' = [seam EXCEPT !.pc = "next"]
    /\ UNCHANGED <<last, ops>>

-----------------------------------------------------------------------------
(* SpecSeam: load_seams calls on cells built as a configuration builds    *)
(* them: every cell constructed with its coordinate in its Local system    *)

RECURSIVE BuildCells(_, _, _, _)
BuildCells(w, system, layout, i) ==
    IF i > Len(layout) THEN w
    ELSE BuildCells(CellInit(w, NoUid, NoName,
                             SysCoord(system, layout[i][1], layout[i][2], layout[i][3])),
                    system, layout, i + 1)

BuildSystem(w, system_type, name, layout) ==
    LET w1 == CreateCoordSystem(w, system_type, LocalId(name))
    IN  BuildCells(w1, GetCoordSystem(w1, LocalId(name)), layout, 1)

\* four hex systems of two cells: the origin and one neighbour of it
HexLayout(name) ==
    IF name = "A" THEN << <<0, 0, 0>>, <<1, -1, 0>> >>
    ELSE IF name = "B" THEN << <<0, 0, 0>>, <<-1, 1, 0>> >>
    ELSE IF name = "C" THEN << <<0, 0, 0>>, <<0, 1, -1>> >>
    ELSE << <<0, 0, 0>>, <<0, -1, 1>> >>

\* gen_coord_set of a rect system for dimensions (3, 3)
RectLayout == [i \in 1..9 |-> <<(i - 1) \div 3, (i - 1) % 3, 0>>]

HexWorld ==
    BuildSystem(BuildSystem(BuildSystem(BuildSystem(NewCellMgr(EmptyWorld),
                                                    "hex", "A", HexLayout("A")),
                                        "hex", "B", HexLayout("B")),
                            "hex", "C", HexLayout("C")),
                "hex", "D", HexLayout("D"))

RectWorld ==
    BuildSystem(BuildSystem(NewCellMgr(EmptyWorld), "rect", "A", RectLayout),
                "rect", "B", RectLayout)

\* the connections a list is drawn from: every ordered pair of A, B, C joined
\* at the origins, and D joined to C either way round
HexPool ==
    ( {<<Endpoint(a, <<0, 0, 0>>, e), Endpoint(b, <<0, 0, 0>>, 3)>> :
          a \in {"A", "B", "C"}, b \in {"A", "B", "C"}, e \in {0, 3}}
      \ {<<Endpoint(a, <<0, 0, 0>>, e), Endpoint(a, <<0, 0, 0>>, 3)>> :
            a \in {"A", "B", "C"}, e \in {0, 3}} )
    \cup {<<Endpoint("C", <<0, 0, 0>>, 0), Endpoint("D", <<0, 0, 0>>, 3)>>,
          <<Endpoint("D", <<0, 0, 0>>, 0), Endpoint("C", <<0, 0, 0>>, 3)>>}

RectPool ==
    {<<Endpoint("A", <<2, 1, 0>>, 2), Endpoint("B", <<0, 1, 0>>, 0)>>,
     <<Endpoint("A", <<1, 2, 0>>, 3), Endpoint("B", <<1, 0, 0>>, 1)>>}

ConnLists(pool) == UNION {[1..n -> pool] : n \in 1..MaxConns}

SeamCall(scenario, raw_system, integrated_system, connections) ==
    [pc |-> "idle", err |-> "", scenario |-> scenario,
     seam_type |-> "auto", system_id |-> <<"Global">>, raw_system |-> raw_system,
     integrated_system |-> integrated_system, connections |-> connections,
     root_sys_id |-> "A",
     gen |-> GenStart, at |-> 0, flag |-> 0, c1sysin |-> FALSE, c2sysin |-> FALSE,
     c1_sysid |-> <<>>, c2_sysid |-> <<>>, c1 |-> NoCell, c2 |-> NoCell,
     processed |-> 0, pending |-> {}, seamededge_idx |-> 0, offset |-> 0,
     anchor |-> NoCoord, remapped_anchor |-> NoCoord,
     mapped_edge_offsets |-> EmptyDict,
     seamed_coord_sys |-> NoSystem, raw_coord_sys |-> NoSystem,
     call |-> 1, before |-> {}]

\* the ids a later seam entry may give its seamed system
SeamIds == {<<"Global">>, <<"Global2">>}

\* the connection of a later seam entry: two systems joined at their origins,
\* the first-listed one being its root
AgainPool ==
    {<<Endpoint(a, <<0, 0, 0>>, 0), Endpoint(b, <<0, 0, 0>>, 3)>> :
        a \in {"A", "B", "C"}, b \in {"B", "C", "D"}}
    \ {<<Endpoint(a, <<0, 0, 0>>, 0), Endpoint(a, <<0, 0, 0>>, 3)>> : a \in {"B", "C"}}

\* `for seam in cell_dict["seams"]: self.load_seams(**seam)`: after a seam
\* entry of one connection has returned, the next entry is loaded on the
\* same CellMgr; `before` keeps the annealed set the earlier entry left
SeamAgain ==
    /\ seam.pc = "done"
    /\ seam.scenario = "hex"
    /\ Len(seam.connections) = 1
    /\ seam.call < MaxSeams
    /\ \E system_id \in SeamIds, conn_pair \in AgainPool :
           seam' = [SeamCall("hex", "hex", "hex", <<conn_pair>>) EXCEPT
                      !.system_id = system_id,
                      !.root_sys_id = conn_pair[1].name,
                      !.call = seam.call + 1,
                      !.before = mgrs[SeamMgr].annealed]
    /\ UnchangedHeap
    /\ UNCHANGED <<last, ops>>

InitSeamWith(w, call) ==
    /\ cells = w.cells
    /\ new_uid = w.new_uid
    /\ assign_coord_cbs = w.assign_coord_cbs
    /\ creation_cbs = w.creation_cbs
    /\ mgrs = w.mgrs
    /\ coord_systems = w.coord_systems
    /\ next_serial = w.next_serial
    /\ last = [NoCall EXCEPT !.pre = w.mgrs]
    /\ ops = 0
    /\ seam = call

InitSeam ==
    \/ \E connections \in ConnLists(HexPool) :
           InitSeamWith(HexWorld, SeamCall("hex", "hex", "hex", connections))
    \/ \E connections \in ConnLists(RectPool), raw_system \in {"square", "rect"} :
           InitSeamWith(RectWorld, SeamCall("rect", raw_system, "rect", connections))

NextSeam ==
    \/ SeamStart
    \/ SeamNext
    \/ SeamBody
    \/ SeamSubsumeCell
    \/ SeamSubsumeEnd
    \/ SeamAnchor
    \/ SeamPlaceCell
    \/ SeamPlaceEnd
    \/ SeamAgain

SpecSeam == InitSeam /\ [][NextSeam]_vars

\* what the call hands to its caller once the sweep is over: load_seams has
\* no return statement, so a call that does not raise returns None
LoadSeamsReturn ==
    IF seam.pc = "done" THEN "None"
    ELSE IF seam.pc = "error" THEN "raise"
    ELSE "running"

-----------------------------------------------------------------------------
(* SpecCoord: calls on CoordinateSystemMgr, on the systems and on the      *)
(* coordinates, in any order.  The caller holds two coordinates, last.a    *)
(* and last.b: a constructor call puts its result in a and moves the       *)
(* former a to b; last.result is what the last call returned or raised.    *)

SysIds == {<<"S">>, <<"T">>}

SystemTypes == HexTypes \cup RectTypes

\* the type tags handed to create_coord_system: "triangle" is not registered
TypeTags == SystemTypes \cup {"triangle"}

CoordRange == (0 - CoordMax) .. CoordMax

NoCoordCall ==
    [op |-> "none", sid |-> <<>>, type |-> "", args |-> <<>>, a |-> NoCoord,
     b |-> NoCoord, result |-> NoCoord, err |-> "", pre |-> EmptyDict]

\* a hex system S and a system T of any registered type
CoordWorld(system_type) ==
    CreateCoordSystem(CreateCoordSystem(EmptyWorld, "hex", <<"S">>),
                      system_type, <<"T">>)

InitCoord ==
    \E system_type \in SystemTypes :
        LET w == CoordWorld(system_type)
        IN  /\ cells = w.cells
            /\ new_uid = w.new_uid
            /\ assign_coord_cbs = w.assign_coord_cbs
            /\ creation_cbs = w.creation_cbs
            /\ mgrs = w.mgrs
            /\ coord_systems = w.coord_systems
            /\ next_serial = w.next_serial
            /\ last = NoCoordCall
            /\ ops = 0
            /\ seam = IdleSeam

\* one call: the heap after it, the call, its result and the coordinates
\* the caller holds after it
CoordCalled(op, sid, type, args, a, b, result, w) ==
    /\ ops < MaxCoordOps
    /\ SetWorld(w)
    /\ last' = [op |-> op, sid |-> sid, type |-> type, args |-> args, a |-> a,
                b |-> b, result |-> result,
                err |-> IF ~Ok(w) THEN w.err
                        ELSE IF result # NoCoord /\ ~IsCoord(result) THEN result.cls
                        ELSE "",
                pre |-> coord_systems]
    /\ ops' = ops + 1
    /\ UNCHANGED seam

\* the coordinates a constructor call leaves with the caller
Held(result) == IF IsCoord(result) THEN <<result, last.a>> ELSE <<last.a, last.b>>

\* CoordinateSystemMgr.create_coord_system(system_type, system_tuple)
DoCreateCoordSystem ==
    \E system_type \in TypeTags, system_tuple \in SysIds :
        CoordCalled("create_coord_system", system_tuple, system_type, <<>>,
                    last.a, last.b, NoCoord,
                    CreateCoordSystem(World, system_type, system_tuple))

\* CoordinateSystemMgr.delete_coord_system(system_tuple)
DoDeleteCoordSystem ==
    \E system_tuple \in SysIds :
        CoordCalled("delete_coord_system", system_tuple, "", <<>>,
                    last.a, last.b, NoCoord, DeleteCoordSystem(World, system_tuple))

\* get_coord_system(system_tuple).coord(x, y, z) on a hex system, with a sum
\* of zero or of one, and .coord(x, y) on a system of the rect family
DoCoord ==
    \E system_tuple \in DOMAIN coord_systems, x \in CoordRange, y \in CoordRange :
        LET system == GetCoordSystem(World, system_tuple)
            hex == SystemTypeClass(system.system_type) = "HexCoordinateSystem"
        IN  \E z \in IF hex THEN {0 - x - y, 1 - x - y} ELSE {0} :
                LET result == SysCoord(system, x, y, z)
                IN  CoordCalled("coord", system_tuple, system.system_type,
                                IF hex THEN <<x, y, z>> ELSE <<x, y>>,
                                Held(result)[1], Held(result)[2], result, World)

\* HexCoord(x, y, z, get_coord_system(system_tuple)) on a hex system
DoHexCoord ==
    \E system_tuple \in DOMAIN coord_systems, x \in CoordRange, y \in CoordRange :
        LET system == GetCoordSystem(World, system_tuple)
        IN  /\ SystemTypeClass(system.system_type) = "HexCoordinateSystem"
            /\ \E z \in {0 - x - y, 1 - x - y} :
                   LET result == HexCoord(x, y, z, system)
                   IN  CoordCalled("HexCoord", system_tuple, system.system_type,
                                   <<x, y, z>>, Held(result)[1], Held(result)[2],
                                   result, World)

\* a + b
DoAdd ==
    /\ IsCoord(last.a) /\ IsCoord(last.b)
    /\ CoordCalled("add", <<>>, "", <<>>, last.a, last.b,
                   CoordAdd(last.a, last.b), World)

\* a - b
DoSub ==
    /\ IsCoord(last.a) /\ IsCoord(last.b)
    /\ CoordCalled("sub", <<>>, "", <<>>, last.a, last.b,
                   CoordSub(last.a, last.b), World)

\* get_coord_system(system_tuple).from_other_system(a)
DoFromOtherSystem ==
    /\ IsCoord(last.a)
    /\ \E system_tuple \in DOMAIN coord_systems :
           LET system == GetCoordSystem(World, system_tuple)
           IN  CoordCalled("from_other_system", system_tuple, system.system_type,
                           <<>>, last.a, last.b, FromOtherSystem(system, last.a),
                           World)

NextCoord ==
    \/ DoCreateCoordSystem
    \/ DoDeleteCoordSystem
    \/ DoCoord
    \/ DoHexCoord
    \/ DoAdd
    \/ DoSub
    \/ DoFromOtherSystem

SpecCoord == InitCoord /\ [][NextCoord]_vars

-----------------------------------------------------------------------------
(* SpecCell: calls on Cell objects, in any order: construction with or     *)
(* without a uid, coordinates and neighbor slots, parent and children.     *)

CellMgrId == 1

CellSysId == <<"A", "Local">>

\* one system, hex or square, and one CellMgr
CellWorld(system_type) ==
    NewCellMgr(CreateCoordSystem(EmptyWorld, system_type, CellSysId))

\* the origin and its neighbor in the positive x direction
CellCoords ==
    LET a == coord_systems[CellSysId]
    IN  {GetOrigin(a), CoordAdd(GetOrigin(a), DirAt(a, Len(Dirs(a)) \div 2))}

\* the uid arguments of Cell(): none, or one the counter also hands out
CellUids == {NoUid, 0, 1}

\* the side arguments: the first side, the side of the positive x
\* direction, and one past the last side
CellSides == {0, (Len(Dirs(coord_systems[CellSysId])) \div 2), Len(Dirs(coord_systems[CellSysId]))}

NoCellCall ==
    [op |-> "none", cell |-> NoCell, arg |-> NoCell, coord |-> NoCoord, side |-> 0,
     reflexive |-> FALSE, result |-> NoCell, err |-> "", plain |-> FALSE,
     pre |-> <<>>]

InitCell ==
    \E system_type \in {"hex", "square"} :
        LET w == CellWorld(system_type)
        IN  /\ cells = w.cells
            /\ new_uid = w.new_uid
            /\ assign_coord_cbs = w.assign_coord_cbs
            /\ creation_cbs = w.creation_cbs
            /\ mgrs = w.mgrs
            /\ coord_systems = w.coord_systems
            /\ next_serial = w.next_serial
            /\ last = NoCellCall
            /\ ops = 0
            /\ seam = IdleSeam

\* one call: the heap after it, the call and how it ended.  plain records
\* that a set_parent, add_child or add_children without reflexive was made.
CellCalled(call, result, w) ==
    /\ ops < MaxCellOps
    /\ SetWorld(w)
    /\ last' = [call EXCEPT !.result = result, !.err = w.err, !.pre = cells,
                            !.plain = last.plain \/ call.plain]
    /\ ops' = ops + 1
    /\ UNCHANGED seam

\* Cell(uid=uid, coord=coord)
CellNew ==
    /\ Len(cells) < MaxTreeCells
    /\ \E uid \in CellUids, coord \in CellCoords \cup {NoCoord} :
           CellCalled([NoCellCall EXCEPT !.op = "Cell", !.cell = Len(cells) + 1,
                                         !.arg = uid, !.coord = coord],
                      Len(cells) + 1, CellInit(World, uid, NoName, coord))

\* cellmgr.create_cell({"name": "n"}, parent_cell)
CellCreateCell ==
    /\ Len(cells) < MaxTreeCells
    /\ \E parent_cell \in DOMAIN cells \cup {NoCell} :
           CellCalled([NoCellCall EXCEPT !.op = "create_cell", !.cell = Len(cells) + 1,
                                         !.arg = parent_cell],
                      Len(cells) + 1,
                      CreateCellIn(World, CellMgrId, [name |-> "n"], parent_cell))

\* cell.assign_coord(coord)
CellAssignCoord ==
    \E c \in DOMAIN cells, coord \in CellCoords :
        CellCalled([NoCellCall EXCEPT !.op = "assign_coord", !.cell = c,
                                      !.coord = coord],
                   NoCell, AssignCoord(World, c, coord))

\* cell.set_neighbor(coord_system_id, side, other)
CellSetNeighbor ==
    \E c \in DOMAIN cells, side \in CellSides, other \in DOMAIN cells :
        CellCalled([NoCellCall EXCEPT !.op = "set_neighbor", !.cell = c,
                                      !.arg = other, !.side = side],
                   NoCell, SetNeighbor(World, c, CellSysId, side, other))

\* cell.get_neighbor(coord_system_id, side)
CellGetNeighbor ==
    \E c \in DOMAIN cells, side \in CellSides :
        LET r == GetNeighbor(World, c, CellSysId, side)
        IN  CellCalled([NoCellCall EXCEPT !.op = "get_neighbor", !.cell = c,
                                          !.side = side],
                       r.cell, IF r.err = "" THEN World ELSE Raise(World, r.err))

\* cell.set_parent(other, reflexive)
CellSetParent ==
    \E c \in DOMAIN cells, other \in DOMAIN cells, reflexive \in BOOLEAN :
        CellCalled([NoCellCall EXCEPT !.op = "set_parent", !.cell = c, !.arg = other,
                                      !.reflexive = reflexive, !.plain = ~reflexive],
                   NoCell, SetParent(World, c, other, reflexive))

\* cell.add_child(other, reflexive)
CellAddChild ==
    \E c \in DOMAIN cells, other \in DOMAIN cells, reflexive \in BOOLEAN :
        CellCalled([NoCellCall EXCEPT !.op = "add_child", !.cell = c, !.arg = other,
                                      !.reflexive = reflexive, !.plain = ~reflexive],
                   NoCell, AddChild(World, c, other, reflexive))

\* cell.add_children([every other cell], reflexive)
CellAddChildren ==
    \E c \in DOMAIN cells, reflexive \in BOOLEAN :
        LET RECURSIVE Others(_)
            Others(i) == IF i > Len(cells) THEN <<>>
                         ELSE IF i = c THEN Others(i + 1)
                         ELSE <<i>> \o Others(i + 1)
        IN  CellCalled([NoCellCall EXCEPT !.op = "add_children", !.cell = c,
                                          !.reflexive = reflexive,
                                          !.plain = ~reflexive],
                       NoCell, AddChildren(World, c, Others(1), reflexive))

NextCell ==
    \/ CellNew
    \/ CellCreateCell
    \/ CellAssignCoord
    \/ CellSetNeighbor
    \/ CellGetNeighbor
    \/ CellSetParent
    \/ CellAddChild
    \/ CellAddChildren

SpecCell == InitCell /\ [][NextCell]_vars

-----------------------------------------------------------------------------
(* Region generation: one create_auto_cells call on a manager with one
   named cell, in steps: the generation, each xform of the pipeline, the
   return *)

MaxXforms == 2

AutoMgrId == 1
AutoParent == 1
AutoWorld == CreateCellIn(NewCellMgr(EmptyWorld), AutoMgrId, [name |-> "P"], NoCell)

AutoCellTypes == {"hex", "square", "rect"}
AutoDimensions ==
    {[system |-> "square", dims |-> <<2, 2>>], [system |-> "square", dims |-> <<3, 3>>],
     [system |-> "square", dims |-> <<5, 5>>], [system |-> "oddr", dims |-> <<3, 3>>],
     [system |-> "oddr", dims |-> <<2, 2>>],
     [system |-> "evenr", dims |-> <<2, 2>>], [system |-> "hex", dims |-> <<3, 3, 3>>],
     [system |-> "hex", dims |-> <<2, 2>>]}
AutoMasks == {<<<<1, 0>>, <<0, 0>>>>, <<<<0, 1>>, <<1, 1>>>>}
AutoXformPool ==
    {[type |-> t, data |-> m] : t \in {"oddr_flat_filter", "evenr_flat_filter"},
                                m \in AutoMasks}
    \cup {[type |-> "square_flat_filter", data |-> <<<<1, 0>>, <<0, 0>>>>],
          [type |-> "auto_connect", data |-> <<>>],
          [type |-> "no_such_xform", data |-> <<>>]}
AutoXformLists == UNION {[1..n -> AutoXformPool] : n \in 0..MaxXforms}
AutoOrders == {"inserted", "reversed"}

NoAutoCall == [op |-> "none", pc |-> "idle", parent |-> NoCell, dict |-> <<>>, order |-> "",
               generated |-> <<>>, auto_cells |-> <<>>, todo |-> <<>>, done |-> <<>>,
               err |-> "", pre |-> <<>>, pre_mgrs |-> <<>>, pre_systems |-> EmptyDict]

InitAuto ==
    /\ cells = AutoWorld.cells
    /\ new_uid = AutoWorld.new_uid
    /\ assign_coord_cbs = AutoWorld.assign_coord_cbs
    /\ creation_cbs = AutoWorld.creation_cbs
    /\ mgrs = AutoWorld.mgrs
    /\ coord_systems = AutoWorld.coord_systems
    /\ next_serial = AutoWorld.next_serial
    /\ last = NoAutoCall
    /\ ops = 0
    /\ seam = IdleSeam

\* create_auto_cells(parent_cell, auto_cell_dict) up to the xform loop
AutoStart ==
    /\ last.pc = "idle"
    /\ \E parent_cell \in {AutoParent, NoCell}, cell_type \in AutoCellTypes,
          dimensions \in AutoDimensions, xform \in AutoXformLists, order \in AutoOrders :
           \* without a parent the call raises on its first line: one xform
           \* list and one order are enough there
           /\ parent_cell = NoCell => (xform = <<>> /\ order = "inserted")
           /\ LET auto_cell_dict == [cell_type |-> cell_type, dimensions |-> dimensions,
                                     xform |-> xform]
                  w == AutoGenerate(World, AutoMgrId, parent_cell, auto_cell_dict, order)
                  auto_cells == NewCells(World, w)
              IN  /\ SetWorld(w)
                  /\ last' = [op |-> "create_auto_cells",
                              pc |-> IF Ok(w) THEN "xforms" ELSE "raised",
                              parent |-> parent_cell, dict |-> auto_cell_dict,
                              order |-> order,
                              generated |-> auto_cells, auto_cells |-> auto_cells,
                              todo |-> xform, done |-> <<>>, err |-> w.err,
                              pre |-> cells, pre_mgrs |-> mgrs,
                              pre_systems |-> coord_systems]
    /\ ops' = ops + 1
    /\ UNCHANGED seam

\* one round of the xform loop
AutoXform ==
    /\ last.pc = "xforms"
    /\ last.todo # <<>>
    /\ LET r == ApplyXform(World, AutoMgrId, Head(last.todo), last.auto_cells)
       IN  /\ SetWorld(r.w)
           /\ last' = [last EXCEPT !.pc = IF Ok(r.w) THEN "xforms" ELSE "raised",
                                   !.auto_cells = r.cells,
                                   !.todo = Tail(@),
                                   !.done = Append(@, Head(last.todo)),
                                   !.err = r.w.err]
    /\ ops' = ops + 1
    /\ UNCHANGED seam

\* return auto_cells
AutoReturn ==
    /\ last.pc = "xforms"
    /\ last.todo = <<>>
    /\ last' = [last EXCEPT !.pc = "returned"]
    /\ ops' = ops + 1
    /\ UNCHANGED <<cells, new_uid, assign_coord_cbs, creation_cbs, mgrs,
                   coord_systems, next_serial, seam>>

NextAuto == AutoStart \/ AutoXform \/ AutoReturn

SpecAuto == InitAuto /\ [][NextAuto]_vars

-----------------------------------------------------------------------------
(* The geometry of the systems: calls of the methods of a hex system H and
   of a system R of the rect family, each on arguments drawn from small
   ranges.  The calls change nothing; last holds the call and its result. *)

MaxDist == 2
HexMax == 1
MaxCnt == 6
MaxDim == 2

HexId == <<"H">>
RectId == <<"R">>

GeoWorld(system_type) ==
    CreateCoordSystem(CreateCoordSystem(EmptyWorld, "hex", HexId), system_type, RectId)

\* the coordinates of H with components of at most HexMax
HexCoords ==
    {SysCoord(coord_systems[HexId], p[1], p[2], 0 - p[1] - p[2]) :
        p \in {q \in ((0 - HexMax)..HexMax) \X ((0 - HexMax)..HexMax) :
                  0 - q[1] - q[2] \in (0 - HexMax)..HexMax}}

\* dimension lists of two and of three components, from -1 on
DimLists == UNION {[1..n -> (0 - 1)..MaxDim] : n \in {2, 3}}

NoGeoCall == [op |-> "none", system |-> <<>>, args |-> <<>>, start |-> NoCoord,
              result |-> NoCoord, value |-> 0, set |-> {}, list |-> <<>>, err |-> ""]

InitGeo ==
    \E system_type \in {"rect", "square"} :
        LET w == GeoWorld(system_type)
        IN  /\ cells = w.cells
            /\ new_uid = w.new_uid
            /\ assign_coord_cbs = w.assign_coord_cbs
            /\ creation_cbs = w.creation_cbs
            /\ mgrs = w.mgrs
            /\ coord_systems = w.coord_systems
            /\ next_serial = w.next_serial
            /\ last = NoGeoCall
            /\ ops = 0
            /\ seam = IdleSeam

GeoCalled(call) ==
    /\ last' = call
    /\ UNCHANGED <<cells, new_uid, assign_coord_cbs, creation_cbs, mgrs,
                   coord_systems, next_serial, ops, seam>>

\* H.make_rotation_transform(cnt)(vec)
GeoMakeRotationTransform ==
    \E cnt \in 0..MaxCnt, vec \in HexCoords :
        GeoCalled([NoGeoCall EXCEPT
                      !.op = "make_rotation_transform", !.system = HexId,
                      !.args = <<cnt>>, !.start = vec,
                      !.result = RotationTransform(coord_systems[HexId], cnt, vec)])

\* H.get_mapping_offset(selfedge_idx, otheredge_idx)
GeoGetMappingOffset ==
    \E selfedge_idx \in 0..5, otheredge_idx \in 0..5 :
        GeoCalled([NoGeoCall EXCEPT
                      !.op = "get_mapping_offset", !.system = HexId,
                      !.args = <<selfedge_idx, otheredge_idx>>,
                      !.value = GetMappingOffset(coord_systems[HexId], selfedge_idx,
                                                 otheredge_idx)])

\* H.coords_in_range(anchor, steps)
GeoCoordsInRange ==
    \E anchor \in HexCoords, steps \in 0..MaxDist :
        GeoCalled([NoGeoCall EXCEPT
                      !.op = "coords_in_range", !.system = HexId, !.args = <<steps>>,
                      !.start = anchor,
                      !.list = CoordsInRange(coord_systems[HexId], anchor, steps)])

\* H.coords_reachable(start, distance)
GeoCoordsReachable ==
    \E start \in HexCoords, distance \in 0..MaxDist :
        GeoCalled([NoGeoCall EXCEPT
                      !.op = "coords_reachable", !.system = HexId,
                      !.args = <<distance>>, !.start = start,
                      !.set = CoordsReachable(coord_systems[HexId], start, distance)])

\* H.coords_in_ring(anchor, radius)
GeoCoordsInRing ==
    \E anchor \in HexCoords, radius \in 0..MaxDist :
        GeoCalled([NoGeoCall EXCEPT
                      !.op = "coords_in_ring", !.system = HexId, !.args = <<radius>>,
                      !.start = anchor,
                      !.list = CoordsInRing(coord_systems[HexId], anchor, radius)])

\* H.gen_coord_set(dimensions) and R.gen_coord_set(dimensions)
GeoGenCoordSet ==
    \E system_tuple \in {HexId, RectId}, dimensions \in DimLists, order \in AutoOrders :
        LET g == GenCoordSet(coord_systems[system_tuple], dimensions, order)
        IN  GeoCalled([NoGeoCall EXCEPT
                          !.op = "gen_coord_set", !.system = system_tuple,
                          !.args = dimensions, !.list = g.coords, !.err = g.err])

NextGeo ==
    \/ GeoMakeRotationTransform
    \/ GeoGetMappingOffset
    \/ GeoCoordsInRange
    \/ GeoCoordsReachable
    \/ GeoCoordsInRing
    \/ GeoGenCoordSet

SpecGeo == InitGeo /\ [][NextGeo]_vars

-----------------------------------------------------------------------------
(* Properties of the registry, checked under SpecReg *)

Indices(m) == <<m.by_uid, m.by_name, m.by_coord, m.by_coord_tuple>>

\* cell c is in the by-uid index of manager record m
Registered(m, c) == cells[c].uid \in DOMAIN m.by_uid /\ m.by_uid[cells[c].uid] = c

\* the managers a call reaches: the one it is made on, or, for a call on a
\* Cell, every manager through the callbacks
Reached(mid) == last.mgr = 0 \/ last.mgr = mid

\* C1: a registration (register_cell, or register_coord_to_cell fired by the
\* Cell constructor, assign_coord or assign_default_coord) of a coordinate
\* that is already indexed to a different cell raises an error and leaves
\* the four indices of the manager exactly as they were before the call.
C1_CollisionRaisesAndKeepsIndices ==
    \A mid \in DOMAIN mgrs :
        ( /\ last.op \in {"Cell", "assign_coord", "assign_default_coord", "register_cell"}
          /\ Reached(mid)
          /\ IsCoord(last.coord)
          /\ last.coord \in DOMAIN last.pre[mid].by_coord
          /\ last.pre[mid].by_coord[last.coord] # last.cell )
        => /\ last.err # ""
           /\ Indices(mgrs[mid]) = Indices(last.pre[mid])

\* C9: after unregister_cell(c) on a registered cell c, c is in no index of
\* that manager: not under its uid, not under its name, not under any
\* coordinate it holds in any system, and in no by_coord_id set.
C9_UnregisterRemovesFromEveryIndex ==
    ( /\ last.op = "unregister_cell"
      /\ cells[last.cell].uid \in DOMAIN last.pre[last.mgr].by_uid
      /\ last.pre[last.mgr].by_uid[cells[last.cell].uid] = last.cell )
    => LET c == last.cell
           mid == last.mgr
       IN  /\ by_uid(World, mid, cells[c].uid) # c
           /\ by_name(World, mid, cells[c].name) # c
           /\ \A sid \in DOMAIN cells[c].coords :
                  by_coord(World, mid, cells[c].coords[sid]) # c
           /\ \A sid \in DOMAIN mgrs[mid].by_coord_tuple :
                  c \notin mgrs[mid].by_coord_tuple[sid]

\* C10: after any sequence of Cell construction, assign_coord,
\* assign_default_coord, register_cell and unregister_cell the indices agree
\* with each other and with the cells: by_coord(k) is a cell of the by-uid
\* index whose coordinate in k's system is k, and a cell is in
\* by_coord_id(s) exactly when it is registered and has a coordinate in s.
C10_IndicesAgree ==
    \A mid \in DOMAIN mgrs :
        /\ \A k \in DOMAIN mgrs[mid].by_coord :
               LET c == mgrs[mid].by_coord[k]
               IN  /\ Registered(mgrs[mid], c)
                   /\ GetCoord(World, c, k.system.system_tuple) = k
        /\ \A sid \in DOMAIN coord_systems, c \in DOMAIN cells :
               (c \in by_coord_id(World, mid, sid))
                   <=> (Registered(mgrs[mid], c) /\ sid \in DOMAIN cells[c].coords)

\* the calls made on a CellMgr instance
MgrOps == {"create_cell", "register_cell", "unregister_cell", "unregister_all"}

\* C11: with two CellMgr instances alive, an operation performed through
\* one of them (create_cell, register_cell, unregister_cell, unregister_all)
\* leaves the by-uid, by-name, by-coordinate and by-system-id indices of the
\* other exactly as they were.
C11_ManagersDoNotInterfere ==
    \A m2 \in DOMAIN last.pre :
        (last.op \in MgrOps /\ last.mgr # m2)
        => Indices(mgrs[m2]) = Indices(last.pre[m2])

\* C14: unregister_cell(c) raises whenever c is not in the by-uid index of
\* that CellMgr when it is called: never registered there, or after
\* unregister_all, with or without coordinates.
C14_UnregisterUnknownRaises ==
    ( /\ last.op = "unregister_cell"
      /\ ~Registered(last.pre[last.mgr], last.cell) )
    => last.err # ""

-----------------------------------------------------------------------------
(* Properties of load_seams, checked under SpecSeam *)

Annealed == mgrs[SeamMgr].annealed

\* the systems the connection list names
InputSystems ==
    {LocalId(seam.connections[i][j].name) : i \in 1..Len(seam.connections), j \in {1, 2}}

\* the systems joined to those of S by one connection, with S
Step(S) ==
    S \cup {LocalId(seam.connections[i][j].name) :
               i \in {n \in 1..Len(seam.connections) :
                         \E e \in {1, 2} : LocalId(seam.connections[n][e].name) \in S},
               j \in {1, 2}}

RECURSIVE Closure(_)
Closure(S) == IF Step(S) = S THEN S ELSE Closure(Step(S))

\* every system connected to the root through connections
Reachable == Closure({LocalId(seam.root_sys_id)})

Ended == seam.pc \in {"done", "error"}

Collided == seam.err = "RuntimeError: Mapped coordinate already exists"

SeamedCoord(c) == GetCoord(World, c, seam.system_id)

\* the cell a connection endpoint names, found as load_seams finds it
EndpointCell(ep) ==
    by_coord(World, SeamMgr,
             FromOtherSystem(GetCoordSystem(World, LocalId(ep.name)),
                             RawCoord(seam.raw_coord_sys, ep.coord)))

\* C2: when load_seams returns normally no two distinct cells hold the same
\* coordinate in the seamed system (a placement onto a claimed coordinate
\* raises instead).
C2_NoSharedSeamedCoord ==
    seam.pc = "done"
    => \A a \in DOMAIN cells, b \in DOMAIN cells :
           (a # b /\ SeamedCoord(a) # NoCoord /\ SeamedCoord(b) # NoCoord)
           => SeamedCoord(a) # SeamedCoord(b)

\* C3: whatever the order of the connection list, as long as the root is the
\* first-listed endpoint of one of its connections, load_seams anneals
\* every system connected to the root (unless it stops on a coordinate
\* collision).
C3_AnnealsReachableInAnyOrder ==
    ( /\ Ended
      /\ seam.scenario = "hex"
      /\ ~Collided
      /\ \E i \in 1..Len(seam.connections) :
             seam.connections[i][1].name = seam.root_sys_id )
    => Annealed = Reachable

\* C4: when a connection with exactly one annealed endpoint is processed,
\* the annealed endpoint's system is the known side (c1) and the other
\* endpoint's system is the one annealed (c2), whichever is listed first.
C4_AnnealedEndpointIsKnownSide ==
    ( /\ seam.pc \in {"anchor", "place", "error"}
      /\ seam.processed > 0
      /\ seam.c1sysin # seam.c2sysin )
    => LET conn_pair == seam.connections[seam.at + 1]
           known == IF seam.c1sysin THEN conn_pair[1] ELSE conn_pair[2]
           new == IF seam.c1sysin THEN conn_pair[2] ELSE conn_pair[1]
       IN  /\ seam.c1_sysid = LocalId(known.name)
           /\ seam.c2_sysid = LocalId(new.name)
           /\ seam.err # "KeyError"

\* C5: every connection processed after the initial root connection has,
\* when it is processed, exactly one endpoint whose system is annealed.
C5_ProcessedHasOneAnnealedEndpoint ==
    (seam.pc = "body" /\ seam.processed >= 1) => (seam.c1sysin # seam.c2sysin)

RECURSIVE SumOfMembers(_)
SumOfMembers(S) ==
    IF S = {} THEN 0
    ELSE LET s == CHOOSE x \in S : TRUE
         IN  Cardinality(by_coord_id(World, SeamMgr, s)) + SumOfMembers(S \ {s})

\* C6: after load_seams returns normally with every input system reachable
\* from the root, by_coord_id(seamed id) is the union of the members of the
\* input local systems, each of them has a seamed coordinate, and the
\* member count is the sum of the local member counts.
C6_SeamedIsUnionOfLocals ==
    (seam.pc = "done" /\ InputSystems \subseteq Reachable)
    => LET members == UNION {by_coord_id(World, SeamMgr, s) : s \in InputSystems}
           seamed == by_coord_id(World, SeamMgr, seam.system_id)
       IN  /\ seamed = members
           /\ \A c \in members : SeamedCoord(c) # NoCoord
           /\ Cardinality(seamed) = SumOfMembers(InputSystems)

\* a run that annealed all four systems and returned
C6_Witness ==
    /\ seam.pc = "done"
    /\ InputSystems \subseteq Reachable
    /\ Cardinality(InputSystems) = 4
    /\ Cardinality(by_coord_id(World, SeamMgr, seam.system_id)) = 8

\* the list A-B, B-C, C-A
Triangle ==
    /\ Len(seam.connections) = 3
    /\ <<seam.connections[1][1].name, seam.connections[1][2].name>> = <<"A", "B">>
    /\ <<seam.connections[2][1].name, seam.connections[2][2].name>> = <<"B", "C">>
    /\ <<seam.connections[3][1].name, seam.connections[3][2].name>> = <<"C", "A">>

\* the third edge agrees with the placement: the anchor of its second
\* endpoint lies one step from the anchor of its first endpoint, in the
\* seamed direction of the first endpoint's declared edge
ThirdEdgeConsistent ==
    LET third == seam.connections[3]
        from == SeamedCoord(EndpointCell(third[1]))
        to == SeamedCoord(EndpointCell(third[2]))
        edge == (third[1].edge + seam.mapped_edge_offsets[LocalId(third[1].name)])
                    % Len(Dirs(seam.seamed_coord_sys))
    IN  CoordAdd(from, DirAt(seam.seamed_coord_sys, edge)) = to

\* C7: with connections A-B, B-C, C-A and root A, a third edge that is
\* inconsistent with the placement of the first two makes load_seams raise;
\* so a normal return means the third edge is consistent.
C7_InconsistentTriangleRaises ==
    (seam.scenario = "hex" /\ Triangle /\ seam.pc = "done") => ThirdEdgeConsistent

\* C8: two 3x3 rect systems joined by one connection, root A, rect seamed
\* system: load_seams returns with 18 members of the seamed system at
\* pairwise distinct coordinates and the two anchors one direction apart.
C8_TwoRectSystemsAnneal ==
    (seam.scenario = "rect" /\ Len(seam.connections) = 1 /\ Ended)
    => /\ seam.pc = "done"
       /\ Cardinality(by_coord_id(World, SeamMgr, seam.system_id)) = 18
       /\ \A a \in DOMAIN cells, b \in DOMAIN cells :
              a # b => SeamedCoord(a) # SeamedCoord(b)
       /\ \E d \in 1..Len(Dirs(seam.seamed_coord_sys)) :
              CoordAdd(SeamedCoord(seam.c1), Dirs(seam.seamed_coord_sys)[d])
                  = SeamedCoord(seam.c2)

\* C12: the sweep over a finite, non-empty connection list is bounded, it
\* enters the loop body at most once per connection of the list, and every
\* connection it processes anneals a system that was not annealed before,
\* so that no system is annealed by two connections.
C12_SweepBoundedOneConnectionPerSystem ==
    /\ seam.processed <= Len(seam.connections)
    /\ (seam.pc \in {"subsume", "anchor"} => seam.c2_sysid \notin Annealed)

\* C13: when the sweep is over and a system the connection list names is
\* still unannealed, the call does not return as it does after a complete
\* anneal: the caller is told that unannealed systems remain.
C13_UnannealedRemainIsReported ==
    (Ended /\ ~(InputSystems \subseteq Annealed)) => LoadSeamsReturn # "None"

RootNotFound == seam.err = "RuntimeError: Couldn't find root coordinate system id"

\* the connections whose first-listed endpoint is in the root system
RootFirst ==
    {i \in 1..Len(seam.connections) : seam.connections[i][1].name = seam.root_sys_id}

\* C34: the scheduler finds the root whenever the root system is the
\* first-listed endpoint's system of some connection, at any position of the
\* list; load_seams ends with "Couldn't find root coordinate system id" only
\* when no connection lists the root first.
C34_RootFoundAtAnyPosition ==
    Ended => (RootNotFound <=> RootFirst = {})

\* C35: the annealed set of a CellMgr persists across successive load_seams
\* calls: while a later seam entry is processed, every system an earlier
\* entry annealed is still in the annealed set.
C35_AnnealedPersistsAcrossCalls ==
    (seam.call > 1 /\ seam.pc # "idle") => seam.before \subseteq Annealed

\* every cell of the system being annealed has been placed
Placed == seam.pc = "place" /\ seam.pending = {}

\* the system being annealed is a new one: no connection of this call and no
\* earlier call has annealed it
NewSystem == seam.c2_sysid \notin (Annealed \cup seam.before)

\* the known side's edge in the seamed system
KnownGlobalEdge ==
    (seam.connections[seam.at + 1][1].edge + seam.mapped_edge_offsets[seam.c1_sysid])
        % Len(Dirs(seam.seamed_coord_sys))

BuiltWorld == IF seam.scenario = "hex" THEN HexWorld ELSE RectWorld

LocalIds == {LocalId(name) : name \in {"A", "B", "C", "D"}}

\* C40: load_seams never changes a cell's coordinate in its own local
\* system: whatever load_seams has done so far, get_coord(local id) is what it
\* was when the cell was built and by_coord of that coordinate is still
\* the cell; annealing only adds coordinates in seamed systems, and a cell
\* that has one has a seamed coordinate as its default coordinate.
C40_LocalCoordsUntouched ==
    \A c \in DOMAIN cells :
        /\ \A s \in LocalIds :
               LET local == GetCoord(World, c, s)
               IN  /\ local = GetCoord(BuiltWorld, c, s)
                   /\ local # NoCoord => by_coord(World, SeamMgr, local) = c
        /\ DOMAIN cells[c].coords \subseteq LocalIds \cup SeamIds
        /\ LET seamed_ids == {id \in SeamIds : GetCoord(World, c, id) # NoCoord}
           IN  IF seamed_ids = {} THEN cells[c].coord = BuiltWorld.cells[c].coord
               ELSE \E id \in seamed_ids : cells[c].coord = GetCoord(World, c, id)

\* load_seams has returned after giving seamed coordinates to two systems
C40_Witness ==
    /\ seam.pc = "done"
    /\ seam.call = 1
    /\ Cardinality({c \in DOMAIN cells : SeamedCoord(c) # NoCoord}) = 4
    /\ \A c \in DOMAIN cells :
           SeamedCoord(c) # NoCoord => cells[c].coord # BuiltWorld.cells[c].coord

-----------------------------------------------------------------------------
(* Properties of the coordinates and their systems, checked under SpecCoord *)

\* the system a call of SpecCoord was made on
CalledSystem == last.pre[last.sid]

\* C15: constructing a hex coordinate, with HexCoord or with the coord() of
\* a hex system, succeeds if and only if the components sum to zero.
C15_HexConstructionIffZeroSum ==
    ( /\ last.op \in {"HexCoord", "coord"}
      /\ SystemTypeClass(last.type) = "HexCoordinateSystem" )
    => (last.err = "" <=> last.args[1] + last.args[2] + last.args[3] = 0)

\* the pairs of types with a from_other_system conversion in both directions
RoundTripPairs ==
    {<<"hex", u>> : u \in {"oddr", "evenr", "oddq", "evenq", "hex"}}
        \cup {<<u, "hex">> : u \in {"oddr", "evenr", "oddq", "evenq"}}
        \cup {<<"square", "square">>}

\* C16: for a pair of types T, U converted in both directions, converting a
\* coordinate of a T system into a U system and the result back into the T
\* system yields the original components (zero-sum triples for hex).
C16_RoundTrip ==
    ( /\ last.op = "from_other_system"
      /\ <<last.a.system.system_type, last.type>> \in RoundTripPairs
      /\ (last.a.system.system_type = "hex" => last.a.x + last.a.y + last.a.z = 0) )
    => /\ IsCoord(last.result)
       /\ LET back == FromOtherSystem(last.a.system, last.result)
          IN  /\ IsCoord(back)
              /\ <<back.x, back.y, back.z>> = <<last.a.x, last.a.y, last.a.z>>

\* the converter the decorators register for one pair (target type, type of
\* the coordinate's system): each converter is written for one such pair
PairConverters ==
    {<<"hex", "oddr">>, <<"hex", "evenr">>, <<"hex", "oddq">>, <<"hex", "evenq">>,
     <<"hex", "hex">>, <<"oddr", "hex">>, <<"square", "square">>}

PairConvert(system, coord) ==
    LET pair == <<system.system_type, coord.system.system_type>>
    IN  IF pair = <<"hex", "oddr">> THEN hex_from_oddr(system, coord)
        ELSE IF pair = <<"hex", "evenr">> THEN hex_from_evenr(system, coord)
        ELSE IF pair = <<"hex", "oddq">> THEN hex_from_oddq(system, coord)
        ELSE IF pair = <<"hex", "evenq">> THEN hex_from_evenq(system, coord)
        ELSE IF pair = <<"hex", "hex">> THEN hex_tofrom_hex(system, coord)
        ELSE IF pair = <<"oddr", "hex">> THEN oddr_from_hex(system, coord)
        ELSE IF pair = <<"square", "square">> THEN square_tofrom_square(system, coord)
        ELSE ErrCoord("ValueError")

\* C17: from_other_system applies the converter registered for the pair
\* (type of the target, type of the coordinate's system) and raises, without
\* returning a coordinate, when none is registered for that pair; target
\* types that share one class are told apart.
C17_ConverterKeyedByPair ==
    last.op = "from_other_system"
    => IF <<last.type, last.a.system.system_type>> \in PairConverters
       THEN last.result = PairConvert(CalledSystem, last.a)
       ELSE last.result = ErrCoord("ValueError")

\* C18: + and - are defined exactly on two coordinates of one system
\* instance, and for such a pair (a + b) - b == a.
C18_AddSubOnSameInstance ==
    /\ last.op \in {"add", "sub"}
       => (IsCoord(last.result) <=> last.a.system = last.b.system)
    /\ (last.op = "add" /\ last.a.system = last.b.system)
       => CoordEq(CoordSub(last.result, last.b), last.a)

\* C19: two coordinates of one class are equal, and hash equally, exactly
\* when their components are equal and their systems have the same id,
\* also when the system was created again under that id between the two.
C19_EqualityByComponentsAndSystemId ==
    (IsCoord(last.a) /\ IsCoord(last.b) /\ last.a.cls = last.b.cls)
    => LET same == /\ <<last.a.x, last.a.y, last.a.z>> = <<last.b.x, last.b.y, last.b.z>>
                   /\ last.a.system.system_tuple = last.b.system.system_tuple
       IN  /\ CoordEq(last.a, last.b) <=> same
           /\ CoordHash(last.a) = CoordHash(last.b) <=> same

\* C20: create_coord_system raises when the type tag is not registered and
\* when a system is stored under the id already, and then leaves the stored
\* instances as they were.
C20_CreateFailsOnUnknownTypeOrDuplicateId ==
    ( /\ last.op = "create_coord_system"
      /\ \/ SystemTypeClass(last.type) = "None"
         \/ last.sid \in DOMAIN last.pre )
    => (last.err # "" /\ coord_systems = last.pre)

-----------------------------------------------------------------------------
(* Properties of the cells, checked under SpecCell *)

\* C26: assign_coord(coord) stores coord as the cell's coordinate of coord's
\* system and leaves every neighbor slot of that system empty, also when the
\* cell had a coordinate and filled slots in that system before.
C26_AssignCoordResetsNeighbors ==
    (last.op = "assign_coord" /\ last.err = "")
    => LET sid == last.coord.system.system_tuple
       IN  /\ GetCoord(World, last.cell, sid) = last.coord
           /\ sid \in DOMAIN cells[last.cell].neighbors
           /\ \A i \in DOMAIN cells[last.cell].neighbors[sid] :
                  cells[last.cell].neighbors[sid][i] = NoCell

\* C27: get_neighbor(system_id, side), for a cell with a coordinate in the
\* system and a side of the system, raises nothing, changes no cell and
\* returns the cell the registry holds at the coordinate plus the direction
\* of the side, or no cell when it holds none there.
C27_GetNeighborLooksUpRegistry ==
    ( /\ last.op = "get_neighbor"
      /\ IsCoord(GetCoord(World, last.cell, CellSysId))
      /\ last.side < Len(Dirs(coord_systems[CellSysId])) )
    => /\ last.err = ""
       /\ cells = last.pre
       /\ last.result =
              by_coord(World, CellMgrId,
                       CoordAdd(GetCoord(World, last.cell, CellSysId),
                                DirAt(coord_systems[CellSysId], last.side)))

\* the cells reached from c by following parent links, c excluded unless a
\* chain of links leads back to it
RECURSIVE Ancestors(_, _)
Ancestors(c, n) ==
    IF n = 0 \/ c = NoCell THEN {}
    ELSE LET p == cells[c].parent
         IN  IF p = NoCell THEN {} ELSE {p} \cup Ancestors(p, n - 1)

\* C28: whatever set_parent, add_child and add_children calls were made, no
\* cell is its own parent or its own ancestor.
C28_ParentRelationIsForest ==
    \A c \in DOMAIN cells : c \notin Ancestors(c, Len(cells))

\* how many times c is in the children of p
Count(p, c) == Cardinality({i \in DOMAIN cells[p].children : cells[p].children[i] = c})

\* C29: as long as cells are built with create_cell and linked by reflexive
\* calls only, c is in p.children exactly when c.parent is p, and at most
\* once.
C29_ParentAndChildrenAgree ==
    ~last.plain
    => \A p \in DOMAIN cells, c \in DOMAIN cells :
           /\ Count(p, c) > 0 <=> cells[c].parent = p
           /\ Count(p, c) <= 1

\* C30: two cells have different uids, a cell constructed later has the
\* larger uid, also when uids are supplied, and by_uid maps the uid of a
\* cell to no other cell.
C30_UidsUniqueAndMonotonic ==
    \A c1 \in DOMAIN cells, c2 \in DOMAIN cells :
        /\ c1 < c2 => cells[c1].uid < cells[c2].uid
        /\ by_uid(World, CellMgrId, cells[c1].uid) \in {NoCell, c1}

-----------------------------------------------------------------------------
(* Properties of region generation, checked under SpecAuto *)

AutoLocalId == <<"P", "Local">>
AutoDimsId == <<"P", "auto_dims", "Local">>

\* a create_auto_cells call on the parent cell was made with this target
\* class and these dimensions
AutoCalled(cls, dims) ==
    /\ last.op = "create_auto_cells"
    /\ last.parent = AutoParent
    /\ SystemTypeClass(last.dict.cell_type) = cls
    /\ last.dict.dimensions.dims = dims

\* the cells of a list are different objects with different coordinates in
\* the system coord_system_id
DistinctCoords(auto_cells, coord_system_id) ==
    \A i, j \in DOMAIN auto_cells :
        i # j => /\ auto_cells[i] # auto_cells[j]
                 /\ IsCoord(GetCoord(World, auto_cells[i], coord_system_id))
                 /\ IsCoord(GetCoord(World, auto_cells[j], coord_system_id))
                 /\ ~CoordEq(GetCoord(World, auto_cells[i], coord_system_id),
                             GetCoord(World, auto_cells[j], coord_system_id))

AutoRemoved ==
    {last.generated[i] : i \in DOMAIN last.generated}
        \ {last.auto_cells[i] : i \in DOMAIN last.auto_cells}

\* an xform of the pipeline has run without raising
AutoXformRan == last.op = "create_auto_cells" /\ last.done # <<>> /\ last.err = ""

\* C22: after a flat-filter xform removed cells from the generated list, no
\* removed cell is claimed in the CellMgr: by_coord returns it for no
\* coordinate of any system, by_uid does not return it, and it is in no
\* by_coord_id set.
C22_RemovedCellsAreUnclaimed ==
    AutoXformRan =>
        \A c \in AutoRemoved :
            /\ \A k \in DOMAIN mgrs[AutoMgrId].by_coord : mgrs[AutoMgrId].by_coord[k] # c
            /\ \A u \in DOMAIN mgrs[AutoMgrId].by_uid : mgrs[AutoMgrId].by_uid[u] # c
            /\ \A t \in DOMAIN mgrs[AutoMgrId].by_coord_tuple :
                   c \notin mgrs[AutoMgrId].by_coord_tuple[t]

FlatFilterTypes == {"oddr_flat_filter", "evenr_flat_filter", "square_flat_filter"}

\* the system type a flat filter reads its mask in
FlatFilterSystem(type) ==
    IF type = "oddr_flat_filter" THEN "oddr"
    ELSE IF type = "evenr_flat_filter" THEN "evenr" ELSE "square"

\* the mask data flags position (x, y): entry (row yidx, column xidx) with
\* x = xidx and y = (number of rows - yidx - 1), rows and columns from 0
MaskFlags(data, x, y) ==
    /\ x \in 0..(Len(data[1]) - 1)
    /\ y \in 0..(Len(data) - 1)
    /\ data[Len(data) - y][x + 1] # 0

\* the generated cells whose position in the system of the dimensions is
\* not flagged
Unflagged(data) ==
    {c \in {last.generated[i] : i \in DOMAIN last.generated} :
        ~MaskFlags(data, GetCoord(World, c, AutoDimsId).x, GetCoord(World, c, AutoDimsId).y)}

\* C23: a flat-filter xform returns, in input order, exactly the cells whose
\* position in the filter's system is not flagged in the mask; checked for
\* a pipeline of one filter whose system is the one the dimensions were
\* given in, where that position is the cell's auto_dims coordinate.
C23_FlatFilterKeepsUnflagged ==
    (/\ AutoXformRan
     /\ Len(last.done) = 1
     /\ last.done[1].type \in FlatFilterTypes
     /\ FlatFilterSystem(last.done[1].type) = last.dict.dimensions.system) =>
        /\ last.auto_cells = SelectCells(last.generated, Unflagged(last.done[1].data))
        /\ Len(last.auto_cells) =
               Len(last.generated)
                   - Cardinality({c \in {last.generated[i] : i \in DOMAIN last.generated} :
                                     c \notin Unflagged(last.done[1].data)})

\* the xform the pipeline reached last has a type that is not registered
AutoUnknownXformReached ==
    /\ last.op = "create_auto_cells"
    /\ last.done # <<>>
    /\ last.done[Len(last.done)].type \notin FlatFilterTypes \cup {"auto_connect"}

\* C24: create_auto_cells with an xform whose type is not registered raises,
\* and nothing the call created remains: the indices of the CellMgr and the
\* children of the parent are as they were before the call.
C24_UnknownXformLeavesNothing ==
    AutoUnknownXformReached =>
        /\ last.pc = "raised"
        /\ last.err = "RuntimeError"
        /\ mgrs = last.pre_mgrs
        /\ cells[last.parent].children = last.pre[last.parent].children

\* the generated cell c is inside the region: by its auto_dims coordinate,
\* off the border of the rectangle, or nearer to the origin of the hexagon
\* than its radius
AutoInterior(c) ==
    LET k == GetCoord(World, c, AutoDimsId)
        d == last.dict.dimensions.dims
    IN  IF Len(d) = 2
        THEN /\ 0 < k.x /\ k.x < d[1] - 1
             /\ 0 < k.y /\ k.y < d[2] - 1
        ELSE \A v \in {k.x, k.y, k.z} : v < d[1] \div 2 /\ 0 - v < d[1] \div 2

\* the sides of cell c whose neighbor slot in the Local system is filled
AutoFilled(c) ==
    {s \in DOMAIN cells[c].neighbors[AutoLocalId] :
        cells[c].neighbors[AutoLocalId][s] # NoCell}

\* only auto_connect xforms have run, none raised: the region is connected
\* and unfiltered
AutoConnected ==
    /\ AutoXformRan
    /\ \A i \in DOMAIN last.done : last.done[i].type = "auto_connect"

-----------------------------------------------------------------------------
(* Properties of the geometry, checked under SpecGeo *)

HexSystem == coord_systems[HexId]

\* the components of two coordinates are opposite
Opposite(a, b) == a.x = 0 - b.x /\ a.y = 0 - b.y /\ a.z = 0 - b.z

\* C31: the rotation transform of make_rotation_transform(k) agrees with the
\* edge offset k of the seam engine: it takes the direction of edge e to the
\* direction of edge (e + k) mod 6; with k the mapping offset of a known
\* global edge s and a new local edge o, it takes the direction of o to the
\* opposite of the direction of s.
C31_RotationAgreesWithEdgeOffset ==
    last.op = "make_rotation_transform" =>
        LET k == last.args[1]
        IN  /\ \A e \in 0..5 :
                   last.start = Dirs(HexSystem)[e + 1] =>
                       last.result = Dirs(HexSystem)[((e + k) % 6) + 1]
            /\ \A s \in 0..5, o \in 0..5 :
                   (/\ k = GetMappingOffset(HexSystem, s, o)
                    /\ last.start = Dirs(HexSystem)[o + 1]) =>
                       Opposite(last.result, Dirs(HexSystem)[s + 1])

\* C32: for the edge s of the known side and the edge o of the new side,
\* get_mapping_offset(s, o) is a k in 0..n-1 with
\* (o + k) mod n = (s + n/2) mod n, and the direction at (s + n/2) mod n is
\* the opposite of the direction at s.
C32_MappingOffsetFacesOpposite ==
    last.op = "get_mapping_offset" =>
        LET s == last.args[1]
            o == last.args[2]
            k == last.value
            n == Len(Dirs(HexSystem))
        IN  /\ 0 <= k /\ k < n
            /\ (o + k) % n = (s + (n \div 2)) % n
            /\ Opposite(Dirs(HexSystem)[((s + (n \div 2)) % n) + 1], Dirs(HexSystem)[s + 1])

\* C32 witness: the offset of edges 0 and 5, where the difference of the
\* indices is negative before it is wrapped
C32_Witness ==
    /\ last.op = "get_mapping_offset"
    /\ last.args = <<0, 5>>
    /\ last.value = 4

Abs(v) == IF v < 0 THEN 0 - v ELSE v

\* the hex distance of two coordinates: the largest difference of a component
HexDistance(a, b) == Max(Abs(a.x - b.x), Max(Abs(a.y - b.y), Abs(a.z - b.z)))

\* the coordinates of H at hex distance d or less from start
HexBall(start, d) ==
    {c \in {SysCoord(HexSystem, start.x + p[1], start.y + p[2], start.z - p[1] - p[2]) :
                p \in ((0 - d)..d) \X ((0 - d)..d)} : HexDistance(c, start) <= d}

ListSet(list) == {list[i] : i \in DOMAIN list}

\* C38: coords_reachable(start, d) returns the set of the coordinates that
\* coords_in_range(start, d) returns, which are exactly the 3d(d+1)+1
\* coordinates at hex distance d or less from start; coords_in_ring(start, r)
\* for r > 0 returns exactly the 6r coordinates at hex distance r.
C38_ReachableRangeAndRing ==
    LET d == last.args[1]
    IN  /\ last.op = "coords_reachable" =>
               /\ last.set = ListSet(CoordsInRange(HexSystem, last.start, d))
               /\ last.set = HexBall(last.start, d)
               /\ Cardinality(last.set) = 3 * d * (d + 1) + 1
        /\ last.op = "coords_in_range" =>
               /\ ListSet(last.list) = HexBall(last.start, d)
               /\ Len(last.list) = 3 * d * (d + 1) + 1
        /\ (last.op = "coords_in_ring" /\ d > 0) =>
               /\ ListSet(last.list) =
                      {c \in HexBall(last.start, d) : HexDistance(c, last.start) = d}
               /\ Len(last.list) = 6 * d
               /\ Cardinality(ListSet(last.list)) = 6 * d

\* C38 witness: coords_reachable from a coordinate other than the origin
\* returned the 19 coordinates within distance 2
C38_Witness ==
    /\ last.op = "coords_reachable"
    /\ last.args = <<2>>
    /\ last.start # SysCoord(HexSystem, 0, 0, 0)
    /\ Cardinality(last.set) = 19

\* C39: gen_coord_set rejects invalid dimensions with an error and without
\* a coordinate: a list with a component that is not positive, for H and
\* for R, and a list of unequal components for H.
C39_InvalidDimensionsRejected ==
    (/\ last.op = "gen_coord_set"
     /\ \/ \E i \in DOMAIN last.args : last.args[i] <= 0
        \/ /\ last.system = HexId
           /\ \E i, j \in DOMAIN last.args : last.args[i] # last.args[j]) =>
        /\ last.err # ""
        /\ last.list = <<>>

-----------------------------------------------------------------------------
(* Further properties of the conversions, checked under SpecCoord *)

\* C36: every coordinate from_other_system produces in a hex system, from
\* an oddr, evenr, oddq or evenq coordinate or from a hex coordinate of sum
\* zero, has x + y + z = 0.
C36_ConvertedHexIsZeroSum ==
    (/\ last.op = "from_other_system"
     /\ SystemTypeClass(last.type) = "HexCoordinateSystem"
     /\ IsCoord(last.result)
     /\ \/ last.a.system.system_type \in {"oddr", "evenr", "oddq", "evenq"}
        \/ /\ last.a.system.system_type = "hex"
           /\ last.a.x + last.a.y + last.a.z = 0) =>
        last.result.x + last.result.y + last.result.z = 0

\* C37: converting a coordinate of one system into another system of the
\* same registered type returns a coordinate with the same components that
\* the target system owns.
C37_SameTypeConversionIsIdentity ==
    (/\ last.op = "from_other_system"
     /\ last.a.system.system_type = last.type
     /\ last.a.system.serial # last.pre[last.sid].serial) =>
        /\ IsCoord(last.result)
        /\ <<last.result.x, last.result.y, last.result.z>> = <<last.a.x, last.a.y, last.a.z>>
        /\ last.result.system = last.pre[last.sid]

====
